---- MODULE Spec2Model ----
(***************************************************************************)
(* cargo-scan: the audit policy lookup (rust-src/src/policy.rs).           *)
(*                                                                         *)
(* A PolicyLookup holds two maps from a path to a set of paths,            *)
(* allow_sets and require_sets.  It is built empty or from a Policy        *)
(* (from_policy streams the policy's statements through add_statement),    *)
(* grows by add_statement and mark_of_interest, and is queried by          *)
(* check_edge and check_edge_bool.                                         *)
(***************************************************************************)
EXTENDS Naturals, Sequences, FiniteSets, Bags, TLC

\* ------------------------------------------------------------------ bounds

\* Longest policy handed to from_policy.
MaxPolicyLen == 2

\* Most add_statement / mark_of_interest calls one lookup receives, the
\* statements streamed by from_policy included.
MaxCalls == 3

\* ---------------------------------------------------------------- universe

\* IdentPath values: two functions and one effect path.
Paths == {"foo", "bar", "std::effect"}

\* FnCall::new(path, args): a call pattern { fn_path, args }.
new(path, args) == [fn_path |-> path, args |-> args]

\* FnCall::new_all(path): the pattern with the wildcard arguments "".
new_all(path) == new(path, "")

\* The FnCall values of the model: every path with the wildcard, and one
\* pattern with literal arguments.
FnCall == {new_all(path) : path \in Paths} \cup {new("foo", "path")}

\* FnCall::fn_path(): the path of a function call pattern.
fn_path(fc) == fc.fn_path

\* enum Statement { Allow { region, effect }, Require { region, effect },
\*                  Trust { region } }.  A Trust statement has no effect
\* field; the record keeps one, equal to the region, so that statements are
\* comparable.
Statement ==
    [type : {"Allow", "Require"}, region : FnCall, effect : FnCall]
    \cup {[type |-> "Trust", region |-> r, effect |-> r] : r \in FnCall}

\* Policy.statements: a list of statements, here of bounded length.
Policies == UNION {[1..n -> Statement] : n \in 0..MaxPolicyLen}

\* Statement::trust(path): the Trust statement of the wildcard pattern.
Statement_trust(path) ==
    [type |-> "Trust", region |-> new_all(path), effect |-> new_all(path)]

\* Policy::add_statement: self.statements.push(s).
Policy_add_statement(statements, s) == Append(statements, s)

\* Policy::trust: self.add_statement(Statement::trust(path)).
Policy_trust(statements, path) ==
    Policy_add_statement(statements, Statement_trust(path))

\* The error lists a caller hands to check_edge: a fresh one, and one that
\* already holds an entry.
PriorErrs == {<< >>, << <<"earlier diagnostic">> >>}

\* ------------------------------------------------------------------- state

VARIABLES
    allow_sets,     \* PolicyLookup.allow_sets: path -> set of paths
    require_sets,   \* PolicyLookup.require_sets: path -> set of paths
    pc,             \* "new": no lookup built yet; "ready"; "aborted": panicked
    calls,          \* history: the bag of add_statement / mark_of_interest
                    \* calls this lookup received, each as <<kind, path, path>>
    call            \* the check_edge / check_edge_bool call whose result the
                    \* caller holds, [op |-> "none"] when it holds none

vars == <<allow_sets, require_sets, pc, calls, call>>

VARIABLES
    cpc,            \* where scan_crate_with_sinks stands: "start"; "files":
                    \* between two files of its loop; "scanning": inside
                    \* Scanner::scan_file; "ok" / "err": it has returned
    crate,          \* the crate directory as found by scan_crate_with_sinks
    limit,          \* how many syntax nodes the crate's files hold at most
    nodes,          \* how many syntax nodes have been visited; the n-th one
                    \* has the source location n
    stack,          \* the syntax nodes the scanner is inside of, outermost
                    \* first: one frame per running scan_* call
    data,           \* the ScanResults
    scope_effect_blocks,    \* Scanner.scope_effect_blocks
    scope_unsafe,           \* Scanner.scope_unsafe
    scope_assign_lhs,       \* Scanner.scope_assign_lhs
    scope_fns,              \* Scanner.scope_fns
    resolver,       \* the scopes pushed on the FileResolver
    sites,          \* history: the call sites and field accesses scanned so
                    \* far, each with where it stands in the syntax
    event           \* history: the last step scan_crate_with_sinks made

scanVars == <<cpc, crate, limit, nodes, stack, data, scope_effect_blocks,
              scope_unsafe, scope_assign_lhs, scope_fns, resolver, sites, event>>

allVars == <<vars, scanVars>>

\* A HashMap with no key.
EmptyMap == [k \in {} |-> {}]

\* The lookup as one value, for the operators below.
Self == [allow_sets |-> allow_sets, require_sets |-> require_sets]

\* ------------------------------------------------------------ PolicyLookup

\* PolicyLookup::empty()
empty == [allow_sets |-> EmptyMap, require_sets |-> EmptyMap]

\* An insertion that replaces the set under the key by the one element.
EntryInsert_replace(map, k, v) ==
    [x \in (DOMAIN map) \cup {k} |-> IF x = k THEN {v} ELSE map[x]]

\* map.entry(k).or_default().insert(v)
EntryInsert(map, k, v) ==
    [x \in (DOMAIN map) \cup {k} |->
        IF x = k
        THEN (IF k \in DOMAIN map THEN map[k] ELSE {}) \cup {v}
        ELSE map[x]]

\* A Require arm that replaces the region's requirement set.
add_statement_require_overwrite(self, stmt) ==
    LET caller == fn_path(stmt.region)
        eff == fn_path(stmt.effect)
    IN  CASE stmt.type = "Allow" ->
                [self EXCEPT !.allow_sets = EntryInsert(self.allow_sets, caller, eff)]
          [] stmt.type = "Require" ->
                [allow_sets |-> EntryInsert(self.allow_sets, caller, eff),
                 require_sets |-> EntryInsert_replace(self.require_sets, caller, eff)]
          [] OTHER -> self

\* An Allow arm that takes the effect for the caller and the region for the
\* effect.
add_statement_swapped(self, stmt) ==
    LET caller == fn_path(stmt.region)
        eff == fn_path(stmt.effect)
    IN  CASE stmt.type = "Allow" ->
                [self EXCEPT !.allow_sets = EntryInsert(self.allow_sets, eff, caller)]
          [] stmt.type = "Require" ->
                [allow_sets |-> EntryInsert(self.allow_sets, caller, eff),
                 require_sets |-> EntryInsert(self.require_sets, caller, eff)]
          [] OTHER -> self

\* A Require arm without the "require encompasses allow" insertion.
add_statement_no_allow(self, stmt) ==
    LET caller == fn_path(stmt.region)
        eff == fn_path(stmt.effect)
    IN  CASE stmt.type = "Allow" ->
                [self EXCEPT !.allow_sets = EntryInsert(self.allow_sets, caller, eff)]
          [] stmt.type = "Require" ->
                [self EXCEPT !.require_sets = EntryInsert(self.require_sets, caller, eff)]
          [] OTHER -> self

\* PolicyLookup::add_statement, the arms that return.  The Trust arm is
\* unimplemented!(): it panics (see AddStatementPanics) and yields no value.
add_statement(self, stmt) ==
    LET caller == fn_path(stmt.region)
        eff == fn_path(stmt.effect)
    IN  CASE stmt.type = "Allow" ->
                [self EXCEPT !.allow_sets = EntryInsert(self.allow_sets, caller, eff)]
          [] stmt.type = "Require" ->
                [allow_sets |-> EntryInsert(self.allow_sets, caller, eff),
                 require_sets |-> EntryInsert(self.require_sets, caller, eff)]
          [] OTHER -> self

\* An add_statement whose every arm returns.
AddStatementPanics_never(stmt) == FALSE

\* PolicyLookup::add_statement panics on a Trust statement.
AddStatementPanics(stmt) == stmt.type = "Trust"

\* PolicyLookup::from_policy: the statements streamed, in order, through
\* add_statement, starting from empty().
RECURSIVE StreamFrom(_, _, _)
StreamFrom(self, p, i) ==
    IF i > Len(p) THEN self
    ELSE StreamFrom(add_statement(self, p[i]), p, i + 1)

from_policy(p) == StreamFrom(empty, p, 1)

\* from_policy panics when the loop reaches a Trust statement.
FromPolicyPanics(p) == \E i \in 1..Len(p) : AddStatementPanics(p[i])

\* A mark_of_interest that drops what the callee already required.
mark_of_interest_reset(self, callee) ==
    [self EXCEPT !.require_sets = EntryInsert_replace(self.require_sets, callee, callee)]

\* A mark_of_interest that inserts into the allow set.
mark_of_interest_allow(self, callee) ==
    [self EXCEPT !.allow_sets = EntryInsert(self.allow_sets, callee, callee)]

\* PolicyLookup::mark_of_interest
mark_of_interest(self, callee) ==
    [self EXCEPT !.require_sets = EntryInsert(self.require_sets, callee, callee)]

\* The two diagnostics of allow_list_contains, as the pieces of their format
\* strings.
MissingEffect(caller, effect) ==
    <<"Allow list for function ", caller, " missing effect ", effect>>

NoAllowList(caller, effect) ==
    <<"No allow list for function ", caller, " with effect ", effect>>

Ok == [ok |-> TRUE, err |-> << >>]

Err(msg) == [ok |-> FALSE, err |-> msg]

\* An allow_list_contains that accepts a caller with no allow list.
allow_list_contains_lenient(self, caller, effect) ==
    IF caller \in DOMAIN self.allow_sets
    THEN IF effect \in self.allow_sets[caller]
         THEN Ok
         ELSE Err(MissingEffect(caller, effect))
    ELSE Ok

\* An allow_list_contains that looks the allow list up under the effect.
allow_list_contains_swapped(self, caller, effect) ==
    IF effect \in DOMAIN self.allow_sets
    THEN IF effect \in self.allow_sets[effect]
         THEN Ok
         ELSE Err(MissingEffect(caller, effect))
    ELSE Err(NoAllowList(caller, effect))

\* PolicyLookup::allow_list_contains
allow_list_contains(self, caller, effect) ==
    IF caller \in DOMAIN self.allow_sets
    THEN IF effect \in self.allow_sets[caller]
         THEN Ok
         ELSE Err(MissingEffect(caller, effect))
    ELSE Err(NoAllowList(caller, effect))

\* An iter_requirements that treats a callee with no entry as requiring itself.
iter_requirements_self(self, callee) ==
    IF callee \in DOMAIN self.require_sets
    THEN self.require_sets[callee]
    ELSE {callee}

\* PolicyLookup::iter_requirements: the elements the iterator yields.
iter_requirements(self, callee) ==
    IF callee \in DOMAIN self.require_sets
    THEN self.require_sets[callee]
    ELSE {}

\* The orders in which a HashSet's iterator may yield its elements.
IterOrders(S) ==
    {s \in [1..Cardinality(S) -> S] : \A i, j \in DOMAIN s : s[i] = s[j] => i = j}

\* A check_edge loop that ends at the first failing requirement.
RECURSIVE CheckLoop_stop_at_first(_, _, _, _, _)
CheckLoop_stop_at_first(self, caller, order, i, error_list) ==
    IF i > Len(order) THEN error_list
    ELSE LET r == allow_list_contains(self, caller, order[i])
         IN  IF r.ok
             THEN CheckLoop_stop_at_first(self, caller, order, i + 1, error_list)
             ELSE Append(error_list, r.err)

\* check_edge's loop over one iteration order: each failing requirement
\* pushes its diagnostic onto error_list.
RECURSIVE CheckLoop(_, _, _, _, _)
CheckLoop(self, caller, order, i, error_list) ==
    IF i > Len(order) THEN error_list
    ELSE LET r == allow_list_contains(self, caller, order[i])
         IN  CheckLoop(self, caller, order, i + 1,
                       IF r.ok THEN error_list ELSE Append(error_list, r.err))

\* PolicyLookup::check_edge: the error lists it may leave, one per iteration
\* order of the callee's requirement set.
check_edge(self, caller, callee, error_list) ==
    {CheckLoop(self, caller, order, 1, error_list) :
        order \in IterOrders(iter_requirements(self, callee))}

\* A check_edge_bool that passes as soon as one requirement is allowed.
check_edge_bool_any(self, caller, callee) ==
    \/ iter_requirements(self, callee) = {}
    \/ \E req \in iter_requirements(self, callee) :
            allow_list_contains(self, caller, req).ok

\* PolicyLookup::check_edge_bool: false at the first requirement that
\* allow_list_contains rejects, true when the loop ends.
check_edge_bool(self, caller, callee) ==
    \A req \in iter_requirements(self, callee) :
        allow_list_contains(self, caller, req).ok

\* ----------------------------------------------------------------- history

\* How a call is recorded in calls.
StmtKey(stmt) == <<stmt.type, fn_path(stmt.region), fn_path(stmt.effect)>>

MarkKey(callee) == <<"Mark", callee, callee>>

Record(bag, key) == bag (+) SetToBag({key})

RECURSIVE PolicyBag(_, _)
PolicyBag(p, i) ==
    IF i > Len(p) THEN EmptyBag ELSE Record(PolicyBag(p, i + 1), StmtKey(p[i]))

Streamed(kind, r, e) == BagIn(<<kind, r, e>>, calls)

\* ------------------------------------------------------------ ScanResults

\* The canonical paths resolve_def gives the functions of the crate, and the
\* ones resolve_path gives a callee: a function of the crate or a foreign one.
FnNames == {"f", "g"}

Callees == FnNames \cup {"ext"}

\* end line - start line of a syntax node's span.
SpanLines == {0, 1}

\* LoCTracker::new
LoCTracker_new == [instances |-> 0, lines |-> 0, zero_size_lines |-> 0]

\* LoCTracker::add of a node whose span covers `lines` line breaks.
add(tracker, lines) ==
    [instances |-> tracker.instances + 1,
     lines |-> IF lines = 0 THEN tracker.lines ELSE tracker.lines + lines,
     zero_size_lines |-> IF lines = 0 THEN tracker.zero_size_lines + 1
                         ELSE tracker.zero_size_lines]

\* ScanResults::new
ScanResults_new ==
    [effects |-> << >>,
     effect_blocks |-> << >>,
     unsafe_traits |-> << >>,
     unsafe_impls |-> << >>,
     pub_fns |-> {},
     fn_locs |-> EmptyMap,
     call_graph |-> [nodes |-> << >>, edges |-> << >>],
     node_idxs |-> EmptyMap,
     total_loc |-> LoCTracker_new,
     skipped_macros |-> LoCTracker_new,
     skipped_conditional_code |-> LoCTracker_new,
     skipped_fn_calls |-> LoCTracker_new,
     skipped_other |-> LoCTracker_new]

\* HashMap::insert: the value of an existing key is replaced.
insert(map, key, value) ==
    [k \in DOMAIN map \cup {key} |-> IF k = key THEN value ELSE map[k]]

\* FnDec::new
FnDec(fn_name, src_loc, vis) == [fn_name |-> fn_name, src_loc |-> src_loc, vis |-> vis]

\* ScanResults::add_fn_dec: add_node gives the graph a new node, whose index
\* is the number of nodes before it (counted from 1 here).
add_fn_dec(d, f) ==
    [d EXCEPT !.call_graph.nodes = Append(@, f.fn_name),
              !.node_idxs = insert(@, f.fn_name, Len(d.call_graph.nodes) + 1),
              !.pub_fns = IF f.vis = "Public" THEN @ \cup {f.fn_name} ELSE @,
              !.fn_locs = insert(@, f.fn_name, f.src_loc)]

\* EffectInstance::new_call and EffectInstance::new_effect
EffectInstance(caller, callee, loc, kind, is_unsafe) ==
    [caller |-> caller, callee |-> callee, loc |-> loc, kind |-> kind,
     is_unsafe |-> is_unsafe]

\* EffectBlock::new_fn, new_unsafe_fn and new_unsafe_expr
EffectBlock(block_type, loc, containing_fn) ==
    [block_type |-> block_type, loc |-> loc, containing_fn |-> containing_fn,
     effects |-> << >>]

\* Vec::last of a stack that is not empty.
last(s) == s[Len(s)]

\* Vec::pop: the stack without its last element.
pop(s) == SubSeq(s, 1, Len(s) - 1)

\* effect_block.push_effect(eff) on scope_effect_blocks.last_mut(), when
\* there is one.
push_to_last_block(blocks, eff) ==
    IF blocks = << >> THEN blocks
    ELSE [blocks EXCEPT ![Len(blocks)].effects = Append(@, eff)]

\* ------------------------------------------------------- the crate on disk

\* What the path <crate>/Cargo.toml may be: nothing, a directory, a path
\* whose existence cannot be told, or a file; the text of the file may be
\* unreadable, no TOML, or a TOML table; the table may lack "package" or hold
\* something else than a table under it; "name" and "version" of the package
\* table may be absent, a string, or another value.
NoToml(entry) ==
    [entry |-> entry, text |-> "none", package |-> "none", name |-> "none",
     version |-> "none"]

TomlValues == {"absent", "string", "other"}

CargoTomls ==
    {NoToml(entry) : entry \in {"missing", "dir", "error"}}
    \cup {[NoToml("file") EXCEPT !.text = t] : t \in {"unreadable", "garbage"}}
    \cup {[NoToml("file") EXCEPT !.text = "table", !.package = pk] :
            pk \in {"absent", "other"}}
    \cup {[entry |-> "file", text |-> "table", package |-> "table",
           name |-> n, version |-> v] : n, v \in TomlValues}

\* The crate path: not a directory, or a directory with a Cargo.toml entry,
\* for which Resolver::new succeeds or not, holding a src directory, a
\* lib.rs file or neither.  files counts the files try_scan_file was given.
NoCrate ==
    [is_dir |-> FALSE, cargo_toml |-> NoToml("missing"), resolver_ok |-> FALSE,
     layout |-> "none", files |-> 0]

Crates ==
    {NoCrate}
    \cup {[is_dir |-> TRUE, cargo_toml |-> t, resolver_ok |-> r, layout |-> l,
           files |-> 0] :
            t \in CargoTomls, r \in BOOLEAN, l \in {"src", "lib", "none"}}

\* A load_cargo_toml that asks for the package name only.
load_cargo_toml_name_only(toml) ==
    /\ toml.text = "table"
    /\ toml.package = "table"
    /\ toml.name = "string"

\* util::load_cargo_toml: TRUE when it returns Ok(CrateData), FALSE when one
\* of its `?` returns the error.
load_cargo_toml(toml) ==
    IF toml.text = "unreadable" THEN FALSE
    ELSE IF toml.text # "table" THEN FALSE
    ELSE IF toml.package = "absent" THEN FALSE
    ELSE IF toml.package # "table" THEN FALSE
    ELSE IF toml.name = "absent" THEN FALSE
    ELSE IF toml.name # "string" THEN FALSE
    ELSE IF toml.version = "absent" THEN FALSE
    ELSE IF toml.version # "string" THEN FALSE
    ELSE TRUE

\* scan_crate_with_sinks up to ScanResults::new(): TRUE when it gets there,
\* FALSE when it returns an error before.
crate_checks(c) ==
    IF ~c.is_dir THEN FALSE
    ELSE IF c.cargo_toml.entry = "error" THEN FALSE
    ELSE IF c.cargo_toml.entry = "missing" \/ c.cargo_toml.entry # "file" THEN FALSE
    ELSE IF ~load_cargo_toml(c.cargo_toml) THEN FALSE
    ELSE IF ~c.resolver_ok THEN FALSE
    ELSE TRUE

\* How many files the walk over the src directory yields at most.
MaxFiles == 2

\* What may go wrong with one source file in scan_file, by the first call
\* that fails: File::open, read_to_string, syn::parse_file,
\* FileResolver::new, or nothing.
Faults == {"open", "read", "parse", "file_resolver", "none"}

\* A scan_file that counts the file's lines before it parses the text.
scan_file_count_first(d, fault, lines) ==
    IF fault = "open" THEN [ok |-> FALSE, data |-> d]
    ELSE IF fault = "read" THEN [ok |-> FALSE, data |-> d]
    ELSE IF fault = "parse"
         THEN [ok |-> FALSE, data |-> [d EXCEPT !.total_loc = add(@, lines)]]
    ELSE IF fault = "file_resolver"
         THEN [ok |-> FALSE, data |-> [d EXCEPT !.total_loc = add(@, lines)]]
    ELSE [ok |-> TRUE, data |-> [d EXCEPT !.total_loc = add(@, lines)]]

\* The free function scan_file, up to the loop of Scanner::scan_file over the
\* file's items: each `?` returns the error and leaves scan_results alone;
\* otherwise Scanner::scan_file counts the file in total_loc.
scan_file(d, fault, lines) ==
    IF fault = "open" THEN [ok |-> FALSE, data |-> d]
    ELSE IF fault = "read" THEN [ok |-> FALSE, data |-> d]
    ELSE IF fault = "parse" THEN [ok |-> FALSE, data |-> d]
    ELSE IF fault = "file_resolver" THEN [ok |-> FALSE, data |-> d]
    ELSE [ok |-> TRUE, data |-> [d EXCEPT !.total_loc = add(@, lines)]]

NoEvent == [op |-> "none", loc |-> 0]

NoScan ==
    /\ cpc = "start"
    /\ crate = NoCrate
    /\ limit = 0
    /\ nodes = 0
    /\ stack = << >>
    /\ data = ScanResults_new
    /\ scope_effect_blocks = << >>
    /\ scope_unsafe = 0
    /\ scope_assign_lhs = FALSE
    /\ scope_fns = << >>
    /\ resolver = << >>
    /\ sites = {}
    /\ event = NoEvent

\* ----------------------------------------------------------------- actions

Init ==
    /\ allow_sets = EmptyMap
    /\ require_sets = EmptyMap
    /\ pc = "new"
    /\ calls = EmptyBag
    /\ call = [op |-> "none"]
    /\ NoScan

Install(lookup) ==
    /\ allow_sets' = lookup.allow_sets
    /\ require_sets' = lookup.require_sets

\* let lookup = PolicyLookup::empty();
Empty ==
    /\ pc = "new"
    /\ Install(empty)
    /\ pc' = "ready"
    /\ UNCHANGED <<calls, call>>
    /\ UNCHANGED scanVars

\* let lookup = PolicyLookup::from_policy(&p);
FromPolicy ==
    /\ pc = "new"
    /\ \E p \in Policies :
        IF FromPolicyPanics(p)
        THEN /\ pc' = "aborted"
             /\ UNCHANGED <<allow_sets, require_sets, calls>>
        ELSE /\ Install(from_policy(p))
             /\ pc' = "ready"
             /\ calls' = PolicyBag(p, 1)
    /\ UNCHANGED call
    /\ UNCHANGED scanVars

\* The caller holds a lookup and no borrowed check result.
Idle == pc = "ready" /\ call.op = "none"

\* lookup.add_statement(&stmt);
AddStatement ==
    /\ Idle
    /\ \E stmt \in Statement :
        IF AddStatementPanics(stmt)
        THEN /\ pc' = "aborted"
             /\ UNCHANGED <<allow_sets, require_sets, calls>>
        ELSE /\ BagCardinality(calls) < MaxCalls
             /\ Install(add_statement(Self, stmt))
             /\ calls' = Record(calls, StmtKey(stmt))
             /\ pc' = pc
    /\ UNCHANGED call
    /\ UNCHANGED scanVars

\* lookup.mark_of_interest(&callee);
MarkOfInterest ==
    /\ Idle
    /\ BagCardinality(calls) < MaxCalls
    /\ \E callee \in Paths :
        /\ Install(mark_of_interest(Self, callee))
        /\ calls' = Record(calls, MarkKey(callee))
    /\ UNCHANGED <<pc, call>>
    /\ UNCHANGED scanVars

\* lookup.check_edge(&caller, &callee, &mut error_list);
CheckEdge ==
    /\ Idle
    /\ \E caller, callee \in Paths, before \in PriorErrs :
        \E after \in check_edge(Self, caller, callee, before) :
            call' = [op |-> "check_edge", caller |-> caller, callee |-> callee,
                     before |-> before, error_list |-> after]
    /\ UNCHANGED <<allow_sets, require_sets, pc, calls>>
    /\ UNCHANGED scanVars

\* A check_edge_bool that remembers a passed edge in the caller's allow set.
CheckEdgeBool_memo ==
    /\ Idle
    /\ \E caller, callee \in Paths :
        /\ call' = [op |-> "check_edge_bool", caller |-> caller, callee |-> callee,
                    ret |-> check_edge_bool(Self, caller, callee)]
        /\ IF check_edge_bool(Self, caller, callee)
           THEN Install([Self EXCEPT !.allow_sets = EntryInsert(@, caller, callee)])
           ELSE UNCHANGED <<allow_sets, require_sets>>
    /\ UNCHANGED <<pc, calls>>
    /\ UNCHANGED scanVars

\* let ret = lookup.check_edge_bool(&caller, &callee);
CheckEdgeBool ==
    /\ Idle
    /\ \E caller, callee \in Paths :
        call' = [op |-> "check_edge_bool", caller |-> caller, callee |-> callee,
                 ret |-> check_edge_bool(Self, caller, callee)]
    /\ UNCHANGED <<allow_sets, require_sets, pc, calls>>
    /\ UNCHANGED scanVars

\* The caller is done with the result of its check and goes on.
Resume ==
    /\ pc = "ready"
    /\ call.op # "none"
    /\ call' = [op |-> "none"]
    /\ UNCHANGED <<allow_sets, require_sets, pc, calls>>
    /\ UNCHANGED scanVars

Next ==
    \/ Empty
    \/ FromPolicy
    \/ AddStatement
    \/ MarkOfInterest
    \/ CheckEdge
    \/ CheckEdgeBool
    \/ Resume

Spec == Init /\ [][Next]_vars

\* ------------------------------------------------------------------ claims

\* require_sets[callee], taken as empty when callee has no entry.
RequireSetOf(callee) ==
    IF callee \in DOMAIN require_sets THEN require_sets[callee] ELSE {}

\* allow_sets[caller], taken as empty when caller has no entry.
AllowSetOf(caller) ==
    IF caller \in DOMAIN allow_sets THEN allow_sets[caller] ELSE {}

\* check_edge_bool on the lookup of the current state.
Passes(caller, callee) == check_edge_bool(Self, caller, callee)

\* C1: in every lookup state reached by add_statement(Allow/Require) and
\* mark_of_interest calls, and for every pair (caller, callee),
\* check_edge_bool(caller, callee) is true if and only if every element of
\* require_sets[callee] is a member of allow_sets[caller], both taken as
\* empty when the key has no entry; a check_edge_bool call returns that value.
C1_EdgePassesIffCovered ==
    pc = "ready" =>
        /\ \A caller, callee \in Paths :
                Passes(caller, callee)
                    <=> (RequireSetOf(callee) \subseteq AllowSetOf(caller))
        /\ call.op = "check_edge_bool" =>
                call.ret = (RequireSetOf(call.callee) \subseteq AllowSetOf(call.caller))

\* A check_edge_bool call on another function passed although the callee
\* has requirements.
C1_Witness ==
    /\ call.op = "check_edge_bool"
    /\ call.ret
    /\ call.caller # call.callee
    /\ RequireSetOf(call.callee) # {}

\* C2: every Require{r, e} statement streamed into the lookup (by
\* from_policy or by a later add_statement) has e in allow_sets[r.fn_path]
\* and in require_sets[r.fn_path], whatever add_statement and
\* mark_of_interest calls followed.
C2_RequirePropagation ==
    pc = "ready" =>
        \A r, e \in Paths :
            Streamed("Require", r, e) =>
                /\ r \in DOMAIN allow_sets /\ e \in allow_sets[r]
                /\ r \in DOMAIN require_sets /\ e \in require_sets[r]

\* A Require statement was streamed, and an Allow and a mark_of_interest on
\* its region as well.
C2_Witness ==
    /\ pc = "ready"
    /\ \E r, e, e2 \in Paths :
            /\ e # e2
            /\ Streamed("Require", r, e)
            /\ Streamed("Allow", r, e2)
            /\ Streamed("Mark", r, r)

\* The call a history entry stands for, applied to a lookup.
ApplyCall(self, key) ==
    IF key[1] = "Mark"
    THEN mark_of_interest(self, key[2])
    ELSE add_statement(self, [type |-> key[1], region |-> new_all(key[2]),
                              effect |-> new_all(key[3])])

\* The lookups that the calls of a bag build from empty(), over every order
\* in which they can be made.
RECURSIVE ReplayAll(_)
ReplayAll(bag) ==
    IF BagToSet(bag) = {}
    THEN {empty}
    ELSE UNION {{ApplyCall(self, key) : self \in ReplayAll(bag (-) SetToBag({key}))} :
                    key \in BagToSet(bag)}

\* C3: the add_statement and mark_of_interest calls a lookup received build
\* the same allow_sets and require_sets in every order in which they can be
\* made: after each call, every permutation of the calls received so far
\* yields the lookup of the current state.
C3_InsertionOrderIndependence ==
    Idle => ReplayAll(calls) = {Self}

\* Three different calls on one region were made: an Allow, a Require and a
\* mark_of_interest.
C3_Witness ==
    /\ pc = "ready"
    /\ BagCardinality(calls) = 3
    /\ \E r, e, e2 \in Paths :
            /\ e # e2 /\ e # r
            /\ Streamed("Allow", r, e)
            /\ Streamed("Require", r, e2)
            /\ Streamed("Mark", r, r)

\* The lookup of the next state.
SelfNext == [allow_sets |-> allow_sets', require_sets |-> require_sets']

\* This step streams the one statement <<kind, r, e>> into the lookup.
Adds(kind, r, e) == calls' = Record(calls, <<kind, r, e>>)

\* C4: adding an Allow statement never turns a passing edge into a failing
\* one: every edge for which check_edge_bool is true before
\* add_statement(Allow{r, e}) still has it true afterwards.
C4_AllowKeepsPassingEdges ==
    [][\A r, e \in Paths :
            Adds("Allow", r, e) =>
                \A caller, callee \in Paths :
                    Passes(caller, callee)
                        => check_edge_bool(SelfNext, caller, callee)]_vars

\* The lookup holds exactly a marked effect e and two Allow statements of one
\* caller, for e and for another effect: the edge into e passes before and
\* after the second Allow is added.
C4_Witness ==
    /\ Idle
    /\ BagCardinality(calls) = 3
    /\ \E c, e, e2 \in Paths :
            /\ e # e2 /\ c # e
            /\ Streamed("Mark", e, e)
            /\ Streamed("Allow", c, e)
            /\ Streamed("Allow", c, e2)
            /\ Passes(c, e)

\* C5 as stated: adding a Require statement never turns a failing edge into
\* a passing one.
C5_RequireNeverPassesFailingEdge ==
    [][\A r, e \in Paths :
            Adds("Require", r, e) =>
                \A caller, callee \in Paths :
                    ~Passes(caller, callee)
                        => ~check_edge_bool(SelfNext, caller, callee)]_vars

\* C5, amended: adding Require{r, e} never turns a failing edge into a
\* passing one when the edge's caller is not the region r; a failing edge
\* whose caller is r may pass afterwards, since the Require puts e on r's
\* allow list.
C5_RequireKeepsFailingEdgesOfOthers ==
    [][\A r, e \in Paths :
            Adds("Require", r, e) =>
                \A caller \in Paths \ {r}, callee \in Paths :
                    ~Passes(caller, callee)
                        => ~check_edge_bool(SelfNext, caller, callee)]_vars

\* A Require on region r was added to a lookup that already held another
\* requirement and an Allow, and the edge from another caller into r fails.
C5_Witness ==
    /\ Idle
    /\ BagCardinality(calls) = 3
    /\ \E r, e, c \in Paths :
            /\ c # r
            /\ Streamed("Require", r, e)
            /\ c \in DOMAIN allow_sets
            /\ ~Passes(c, r)

\* Every key of the map keeps its entry and every element of it.
Keeps(map, mapNext) ==
    \A k \in DOMAIN map : k \in DOMAIN mapNext /\ map[k] \subseteq mapNext[k]

\* C6: after mark_of_interest(c), c is a member of require_sets[c], and
\* stays one whatever add_statement, mark_of_interest, check_edge and
\* check_edge_bool calls follow: no step removes a key or an element from
\* require_sets or allow_sets.
C6_MarkedStaysRequired ==
    /\ [](pc = "ready" =>
            \A c \in Paths :
                Streamed("Mark", c, c) =>
                    c \in DOMAIN require_sets /\ c \in require_sets[c])
    /\ [][pc' = "ready" =>
            /\ Keeps(allow_sets, allow_sets')
            /\ Keeps(require_sets, require_sets')]_vars

\* A path was marked, two more calls changed the lookup, and the caller
\* holds the result of a check_edge on the marked path.
C6_Witness ==
    /\ call.op = "check_edge"
    /\ BagCardinality(calls) = 3
    /\ Streamed("Mark", call.callee, call.callee)
    /\ \E r, e \in Paths : Streamed("Require", r, e)
    /\ \E r, e \in Paths : Streamed("Allow", r, e)

\* C7: a callee with no entry in require_sets always passes: for every
\* caller, with or without an allow set, check_edge_bool is true and
\* check_edge leaves the error list as it was handed in; the calls made on
\* such a callee returned just that.
C7_NoRequirementsAlwaysPasses ==
    pc = "ready" =>
        /\ \A caller \in Paths, callee \in Paths \ DOMAIN require_sets :
                /\ Passes(caller, callee)
                /\ \A before \in PriorErrs :
                        check_edge(Self, caller, callee, before) = {before}
        /\ call.op = "check_edge_bool" /\ call.callee \notin DOMAIN require_sets
                => call.ret
        /\ call.op = "check_edge" /\ call.callee \notin DOMAIN require_sets
                => call.error_list = call.before

\* check_edge was called, with an error list that already held an entry, on
\* a caller that has no allow set and a callee that has no requirement set,
\* in a lookup where other paths have requirements.
C7_Witness ==
    /\ call.op = "check_edge"
    /\ call.before # << >>
    /\ call.caller \notin DOMAIN allow_sets
    /\ call.callee \notin DOMAIN require_sets
    /\ DOMAIN require_sets # {}

\* C8: for an effect path e that was marked of interest and is the region of
\* no Require statement, and for every caller c, check_edge_bool(c, e) is
\* true exactly when an Allow{c, e} or a Require{c, e} statement was
\* streamed; so it is false under the empty policy, false for a caller other
\* than the one allowed, and false for a marked effect the caller was not
\* allowed.
C8_MarkedEffectNeedsAllow ==
    pc = "ready" =>
        \A e \in Paths :
            (/\ Streamed("Mark", e, e)
             /\ \A x \in Paths : ~Streamed("Require", e, x))
            => \A c \in Paths :
                    Passes(c, e)
                        <=> (Streamed("Allow", c, e) \/ Streamed("Require", c, e))

\* Two effects are marked and one caller is allowed one of them: the check
\* of that caller on the allowed effect returned true, and it fails on the
\* other marked effect, as does another caller on the allowed one.
C8_Witness ==
    /\ call.op = "check_edge_bool"
    /\ call.ret
    /\ BagCardinality(calls) = 3
    /\ Streamed("Mark", call.callee, call.callee)
    /\ Streamed("Allow", call.caller, call.callee)
    /\ \E e2 \in Paths \ {call.callee, call.caller} :
            /\ Streamed("Mark", e2, e2)
            /\ ~Passes(call.caller, e2)
            /\ ~Passes(e2, call.callee)

\* An Allow{g, e} or a Require{g, e} statement was streamed.
Granted(g, e) == Streamed("Allow", g, e) \/ Streamed("Require", g, e)

\* C9: when a Require{f, e} statement was streamed, the edge (g, f) fails
\* for every caller g that has e not on its allow list, and e is on g's allow
\* list exactly when an Allow{g, e} or a Require{g, e} was streamed; when e
\* is f's only requirement the edge (g, f) passes for every such g; and the
\* edge from f into a callee without requirements passes.
C9_RequireForbidsUnauthorizedCallers ==
    pc = "ready" =>
        \A f, e \in Paths :
            Streamed("Require", f, e) =>
                /\ \A g \in Paths :
                        /\ (e \in AllowSetOf(g)) <=> Granted(g, e)
                        /\ Passes(g, f) => e \in AllowSetOf(g)
                        /\ (RequireSetOf(f) = {e} /\ Granted(g, e)) => Passes(g, f)
                /\ \A d \in Paths \ DOMAIN require_sets : Passes(f, d)

\* Require{f, e} was streamed with e marked: the check of an unauthorized
\* caller g on f returned false, f passes into e, and f passes into the
\* requirement-free g.
C9_Witness ==
    /\ call.op = "check_edge_bool"
    /\ ~call.ret
    /\ \E e \in Paths \ {call.caller, call.callee} :
            /\ Streamed("Require", call.callee, e)
            /\ Streamed("Mark", e, e)
            /\ RequireSetOf(call.callee) = {e}
            /\ Passes(call.callee, e)
    /\ call.caller \notin DOMAIN require_sets
    /\ Passes(call.callee, call.caller)

\* C10: two regions that each carry, by a Require statement, the same single
\* requirement e pass edges in both directions without any Allow statement;
\* so under the policy Require{foo, e}, Require{bar, e} with e marked,
\* check_edge_bool(foo, bar) and check_edge_bool(bar, foo) are both true.
C10_RequireOnlyCyclePasses ==
    pc = "ready" =>
        \A a, b, e \in Paths :
            (/\ Streamed("Require", a, e) /\ RequireSetOf(a) = {e}
             /\ Streamed("Require", b, e) /\ RequireSetOf(b) = {e})
            => Passes(a, b) /\ Passes(b, a)

\* The lookup received exactly Require{foo, e}, Require{bar, e} and
\* mark_of_interest(e), and check_edge_bool(foo, bar) returned true.
C10_Witness ==
    /\ call.op = "check_edge_bool"
    /\ call.caller = "foo" /\ call.callee = "bar"
    /\ call.ret
    /\ BagCardinality(calls) = 3
    /\ Streamed("Require", "foo", "std::effect")
    /\ Streamed("Require", "bar", "std::effect")
    /\ Streamed("Mark", "std::effect", "std::effect")
    /\ Passes("bar", "foo")

\* The diagnostics a held check_edge call appended to its error list.
Diagnostics ==
    {call.error_list[i] : i \in (Len(call.before) + 1)..Len(call.error_list)}

\* The diagnostics the lookup of this state owes the edge (caller, callee):
\* one for each requirement of the callee the caller's allow set lacks.
Owed(caller, callee) ==
    {allow_list_contains(Self, caller, req).err :
        req \in {r \in iter_requirements(Self, callee) :
                    ~allow_list_contains(Self, caller, r).ok}}

\* C11: check_edge and check_edge_bool leave allow_sets and require_sets as
\* they were, so whatever checks were made before and in whatever order, the
\* boolean a check returns and the set of diagnostics it appends are the ones
\* the lookup gives for that edge, and the earlier entries of the error list
\* are kept.
C11_ChecksLeaveLookupUnchanged ==
    /\ [][call'.op # "none" => UNCHANGED <<allow_sets, require_sets>>]_vars
    /\ [](pc = "ready" =>
            /\ call.op = "check_edge_bool" =>
                    call.ret = check_edge_bool(Self, call.caller, call.callee)
            /\ call.op = "check_edge" =>
                    /\ Diagnostics = Owed(call.caller, call.callee)
                    /\ SubSeq(call.error_list, 1, Len(call.before)) = call.before)

\* A check_edge call appended two diagnostics behind an earlier one, on a
\* lookup that holds statements.
C11_Witness ==
    /\ call.op = "check_edge"
    /\ Len(call.before) = 1
    /\ Cardinality(Diagnostics) = 2
    /\ BagCardinality(calls) = 2

\* C21: Policy::trust appends a Trust statement to the statement list like
\* any other statement, and PolicyLookup::add_statement on a Trust statement
\* does not return: the step that meets one aborts and leaves allow_sets and
\* require_sets as they were, nothing follows it, and no lookup a caller
\* holds has received a Trust statement, so from_policy on a policy with a
\* Trust statement produces no lookup.
C21_TrustStoredNotIndexed ==
    /\ [][pc' = "aborted" => UNCHANGED <<allow_sets, require_sets, calls>>]_vars
    /\ [][pc # "aborted"]_vars
    /\ [](pc = "ready" => \A key \in BagToSet(calls) : key[1] # "Trust")
    /\ [](pc = "new" =>
            \A p \in Policies, path \in Paths :
                Len(p) < MaxPolicyLen =>
                    LET q == Policy_trust(p, path)
                    IN  /\ q \in Policies
                        /\ Len(q) = Len(p) + 1
                        /\ SubSeq(q, 1, Len(p)) = p
                        /\ q[Len(q)].type = "Trust"
                        /\ fn_path(q[Len(q)].region) = path
                        /\ FromPolicyPanics(q)
                        /\ AddStatementPanics(q[Len(q)]))

\* add_statement met a Trust statement on a lookup that holds two statements.
C21_Witness ==
    /\ pc = "aborted"
    /\ BagCardinality(calls) = 2
    /\ allow_sets # EmptyMap

\* The requirements of the callee that the caller's allow set lacks.
Missing(caller, callee) == RequireSetOf(callee) \ AllowSetOf(caller)

\* The entries a held check_edge call appended, in the order of the list.
Appended == SubSeq(call.error_list, Len(call.before) + 1, Len(call.error_list))

\* C23: check_edge appends exactly one diagnostic for each element of
\* require_sets[callee] that allow_sets[caller] lacks and keeps the earlier
\* entries of the list; every diagnostic has the form "No allow list for
\* function" when the caller has no allow_sets entry and the form "Allow list
\* for function ... missing effect" when it has one; check_edge_bool is true
\* exactly when check_edge appends nothing; neither call panics.
C23_OneDiagnosticPerMissingEffect ==
    /\ call.op \in {"check_edge", "check_edge_bool"} => pc = "ready"
    /\ call.op = "check_edge" =>
            /\ SubSeq(call.error_list, 1, Len(call.before)) = call.before
            /\ Len(Appended) = Cardinality(Missing(call.caller, call.callee))
            /\ \A req \in Missing(call.caller, call.callee) :
                    \E i \in DOMAIN Appended :
                        Appended[i] =
                            IF call.caller \in DOMAIN allow_sets
                            THEN MissingEffect(call.caller, req)
                            ELSE NoAllowList(call.caller, req)
            /\ check_edge_bool(Self, call.caller, call.callee)
                    <=> (Appended = << >>)
    /\ call.op = "check_edge_bool" =>
            (call.ret <=>
                \A error_list \in check_edge(Self, call.caller, call.callee, << >>) :
                    error_list = << >>)

\* check_edge appended two diagnostics of the form "Allow list for function
\* ... missing effect" behind an earlier entry.
C23_Witness ==
    /\ call.op = "check_edge"
    /\ Len(call.before) = 1
    /\ call.caller \in DOMAIN allow_sets
    /\ Cardinality(Missing(call.caller, call.callee)) = 2
    /\ Len(Appended) = 2

\* check_edge appended a diagnostic of the form "No allow list for function".
C23_WitnessNoAllowList ==
    /\ call.op = "check_edge"
    /\ call.caller \notin DOMAIN allow_sets
    /\ Len(Appended) = 1

\* ------------------------------------------------------ Policy::from_file

\* Path::extension(): Some(ext) or None, as a sequence of at most one element.
Extensions == {<<"toml">>, <<"txt">>, << >>}

\* What a policy file holds: nothing that can be read, text that is no TOML
\* document, a TOML document that lacks a field of Policy, or the TOML
\* document of a policy.
FileContents ==
    {[kind |-> "unreadable"], [kind |-> "not_toml"], [kind |-> "missing_field"]}
    \cup {[kind |-> "policy", statements |-> p] : p \in Policies}

\* The policy files of the model.
PolicyFiles == [extension : Extensions, content : FileContents]

\* Whether debug assertions are compiled in.
Builds == {"debug", "release"}

\* std::fs::read_to_string(file)
read_to_string(file) ==
    IF file.content.kind = "unreadable"
    THEN Err(<<"io::Error">>)
    ELSE [ok |-> TRUE, text |-> file.content]

\* toml::from_str::<Policy>(&toml_str)
from_str(text) ==
    IF text.kind = "policy"
    THEN [ok |-> TRUE, policy |-> text.statements]
    ELSE Err(<<"toml::de::Error", text.kind>>)

\* Policy::from_file: debug_assert_eq! on the extension, which a release
\* build leaves out, then the read and the parse, each with `?`.
from_file(file, build) ==
    IF build = "debug" /\ file.extension # <<"toml">>
    THEN [kind |-> "panic"]
    ELSE LET toml_str == read_to_string(file)
         IN  IF ~toml_str.ok
             THEN [kind |-> "Err", err |-> toml_str.err]
             ELSE LET policy == from_str(toml_str.text)
                  IN  IF ~policy.ok
                      THEN [kind |-> "Err", err |-> policy.err]
                      ELSE [kind |-> "Ok", policy |-> policy.policy]

\* let ret = Policy::from_file(&file);
FromFile ==
    /\ pc = "new"
    /\ call.op = "none"
    /\ \E file \in PolicyFiles, build \in Builds :
        LET ret == from_file(file, build)
        IN  /\ call' = [op |-> "from_file", file |-> file, build |-> build,
                        ret |-> ret]
            /\ pc' = IF ret.kind = "panic" THEN "aborted" ELSE pc
    /\ UNCHANGED <<allow_sets, require_sets, calls>>
    /\ UNCHANGED scanVars

\* The caller is done with the outcome and loads another file.
FromFileResume ==
    /\ pc = "new"
    /\ call.op = "from_file"
    /\ call' = [op |-> "none"]
    /\ UNCHANGED <<allow_sets, require_sets, pc, calls>>
    /\ UNCHANGED scanVars

NextFile ==
    \/ FromFile
    \/ FromFileResume

SpecFile == Init /\ [][NextFile]_vars

\* C22: Policy::from_file on a path whose extension is not toml never
\* returns Ok(policy), whatever the file holds; on a path with the extension
\* toml it returns the parsed policy, or an error that carries the
\* diagnostic of the read or of the parse.
C22_WrongExtensionFailsLoad ==
    call.op = "from_file" =>
        IF call.file.extension # <<"toml">>
        THEN call.ret.kind # "Ok"
        ELSE \/ /\ call.ret.kind = "Ok"
                /\ call.file.content.kind = "policy"
                /\ call.ret.policy = call.file.content.statements
             \/ /\ call.ret.kind = "Err"
                /\ call.file.content.kind # "policy"
                /\ call.ret.err[1] \in {"io::Error", "toml::de::Error"}

\* ---------------------------------------------------------------- Scanner

\* The frame of a syntax node the scanner has entered: its kind, its source
\* location, how many of its children were scanned so far, and what the
\* node says: the canonical path of a function or callee or the kind of a
\* field's member (name), the unsafe keyword of a function or the unsafety
\* the resolver tells of a callee (is_unsafe), and for a field access what
\* the syntax makes of it (role): "written" when it is the left operand of
\* an assignment, "place" when it is the base of a written or place access,
\* "read" otherwise.
Frame(kind, loc) ==
    [kind |-> kind, loc |-> loc, n |-> 0, name |-> "", is_unsafe |-> FALSE,
     role |-> ""]

\* Kinds of frames whose children are statements (scan_fn_statement).
StmtLists == {"fn", "unsafe", "block"}

\* Kinds of frames that scan exactly one expression before they go on.
OneExpr == {"assign_left", "assign_right", "field"}

Scanning == cpc = "scanning" /\ stack # << >>

\* scan_item is about to be called: by Scanner::scan_file, scan_mod or
\* scan_item_in_fn.
AtItem == Scanning /\ last(stack).kind \in {"file", "mod"} \cup StmtLists

\* scan_expr is about to be called: on a statement or a let initializer, on
\* the operand of an assignment, the base of a field access or an argument
\* of a call.
AtExpr ==
    /\ Scanning
    /\ \/ last(stack).kind \in StmtLists
       \/ last(stack).kind \in OneExpr /\ last(stack).n = 0
       \/ last(stack).kind \in {"call", "method"}

\* The next syntax node of the file, if the file has one more.
Loc == nodes + 1

More == nodes < limit /\ nodes' = nodes + 1

\* The scanner calls the handler of a child that has children of its own,
\* scans a child wholly in one step, or returns from the handler it is in.
Enter(frame) == stack' = Append([stack EXCEPT ![Len(stack)].n = @ + 1], frame)

Visit == stack' = [stack EXCEPT ![Len(stack)].n = @ + 1]

Return == stack' = pop(stack)

Step(op) == event' = [op |-> op, loc |-> Loc]

Back(op) == event' = [op |-> op, loc |-> last(stack).loc]

\* The innermost frame of one of the kinds the scanner is inside of.
Innermost(kinds) ==
    LET I == {i \in 1..Len(stack) : stack[i].kind \in kinds}
    IN  stack[CHOOSE i \in I : \A j \in I : j <= i]

\* How many unsafe function declarations, unsafe blocks and foreign modules
\* enclose the node the scanner is at.
UnsafeScopes ==
    Cardinality({i \in 1..Len(stack) :
                    \/ stack[i].kind \in {"unsafe", "foreign_mod"}
                    \/ stack[i].kind = "fn" /\ stack[i].is_unsafe})

\* Where a call site or field access stands in the syntax: the function it
\* is in, the innermost unsafe block or function body around it and the
\* number of unsafe scopes around it; for a call site, what the resolver
\* says of the callee's unsafety.
Site(kind, frame) ==
    [kind |-> kind, loc |-> frame.loc, name |-> frame.name, role |-> frame.role,
     fn |-> Innermost({"fn"}).name,
     block |-> Innermost({"fn", "unsafe"}).loc,
     reported |-> frame.is_unsafe,
     unsafe_scopes |-> UnsafeScopes]

\* What the syntax makes of a field access under the frame `parent`.
Role(parent) ==
    IF parent.kind = "assign_left" THEN "written"
    ELSE IF parent.kind = "field"
         THEN IF parent.role = "read" THEN "read" ELSE "place"
    ELSE "read"

\* Path::pop_ident on a path of one identifier.
pop_ident(path) == ""

\* A push_effect that saves the effect in the function's block, the
\* outermost of the stack.
push_effect_outermost(d, blocks, fns, callee, loc, kind) ==
    LET caller == IF fns # << >> THEN last(fns).fn_name ELSE pop_ident(callee)
        eff == EffectInstance(caller, callee, loc, kind, FALSE)
    IN  [data |-> [d EXCEPT !.effects = Append(@, eff)],
         scope_effect_blocks |->
            IF blocks = << >> THEN blocks
            ELSE [blocks EXCEPT ![1].effects = Append(@, eff)]]

\* Scanner::push_effect: the new ScanResults and scope_effect_blocks.
push_effect(d, blocks, fns, callee, loc, kind) ==
    LET caller == IF fns # << >> THEN last(fns).fn_name ELSE pop_ident(callee)
        eff == EffectInstance(caller, callee, loc, kind, FALSE)
    IN  [data |-> [d EXCEPT !.effects = Append(@, eff)],
         scope_effect_blocks |-> push_to_last_block(blocks, eff)]

\* A push_callsite that adds the edge and saves the effect in the block
\* only, not in the list of effects.
push_callsite_block_only(d, blocks, fns, callee, loc, is_unsafe) ==
    LET caller == last(fns).fn_name
        eff == EffectInstance(caller, callee, loc, "Call", is_unsafe)
        edge == [from |-> d.node_idxs[caller], to |-> d.node_idxs[callee],
                 loc |-> loc]
    IN  [data |->
            IF caller \in DOMAIN d.node_idxs /\ callee \in DOMAIN d.node_idxs
            THEN [d EXCEPT !.call_graph.edges = Append(@, edge)]
            ELSE d,
         scope_effect_blocks |-> push_to_last_block(blocks, eff)]

\* A push_callsite that takes the outermost function of scope_fns for the
\* caller.
push_callsite_outermost_fn(d, blocks, fns, callee, loc, is_unsafe) ==
    LET caller == fns[1].fn_name
        eff == EffectInstance(caller, callee, loc, "Call", is_unsafe)
        edge == [from |-> d.node_idxs[caller], to |-> d.node_idxs[callee],
                 loc |-> loc]
        graphed ==
            IF caller \in DOMAIN d.node_idxs /\ callee \in DOMAIN d.node_idxs
            THEN [d EXCEPT !.call_graph.edges = Append(@, edge)]
            ELSE d
    IN  [data |-> [graphed EXCEPT !.effects = Append(@, eff)],
         scope_effect_blocks |-> push_to_last_block(blocks, eff)]

\* A push_callsite that adds no edge for a call of the caller itself.
push_callsite_no_self_edge(d, blocks, fns, callee, loc, is_unsafe) ==
    LET caller == last(fns).fn_name
        eff == EffectInstance(caller, callee, loc, "Call", is_unsafe)
        edge == [from |-> d.node_idxs[caller], to |-> d.node_idxs[callee],
                 loc |-> loc]
        graphed ==
            IF /\ caller \in DOMAIN d.node_idxs
               /\ callee \in DOMAIN d.node_idxs
               /\ caller # callee
            THEN [d EXCEPT !.call_graph.edges = Append(@, edge)]
            ELSE d
    IN  [data |-> [graphed EXCEPT !.effects = Append(@, eff)],
         scope_effect_blocks |-> push_to_last_block(blocks, eff)]

\* Scanner::push_callsite, called inside a function: the new ScanResults
\* and scope_effect_blocks.
push_callsite(d, blocks, fns, callee, loc, is_unsafe) ==
    LET caller == last(fns).fn_name
        eff == EffectInstance(caller, callee, loc, "Call", is_unsafe)
        edge == [from |-> d.node_idxs[caller], to |-> d.node_idxs[callee],
                 loc |-> loc]
        graphed ==
            IF caller \in DOMAIN d.node_idxs /\ callee \in DOMAIN d.node_idxs
            THEN [d EXCEPT !.call_graph.edges = Append(@, edge)]
            ELSE d
    IN  [data |-> [graphed EXCEPT !.effects = Append(@, eff)],
         scope_effect_blocks |-> push_to_last_block(blocks, eff)]

\* What a step of the scanner leaves alone besides the lookup.
driverVars == <<cpc, crate, limit>>

scopeVars == <<scope_effect_blocks, scope_unsafe, scope_assign_lhs, scope_fns>>

\* ------------------------------------------------- scan_crate_with_sinks

\* scan_crate_with_sinks(crate_path, sinks) on a crate whose files hold at
\* most `size` syntax nodes, up to the loop over the files.
ScanCrate(c, size) ==
    /\ cpc = "start"
    /\ crate' = c
    /\ limit' = size
    /\ cpc' = IF crate_checks(c) THEN "files" ELSE "err"
    /\ event' = [op |-> "scan_crate_with_sinks", loc |-> 0]
    /\ UNCHANGED <<nodes, stack, data, scopeVars, resolver, sites>>
    /\ UNCHANGED vars

\* try_scan_file on the next file of the walk over src, or on lib.rs: an
\* error of scan_file is logged; otherwise the new Scanner enters the file.
TryScanFile(fault, lines) ==
    /\ cpc = "files"
    /\ \/ crate.layout = "src" /\ crate.files < MaxFiles
       \/ crate.layout = "lib" /\ crate.files = 0
    /\ crate' = [crate EXCEPT !.files = @ + 1]
    /\ LET r == scan_file(data, fault, lines)
       IN  /\ data' = r.data
           /\ IF r.ok
              THEN /\ cpc' = "scanning"
                   /\ stack' = <<Frame("file", 0)>>
                   /\ scope_effect_blocks' = << >>
                   /\ scope_unsafe' = 0
                   /\ scope_assign_lhs' = FALSE
                   /\ scope_fns' = << >>
                   /\ resolver' = << >>
                   /\ event' = [op |-> "scan_file", loc |-> 0]
              ELSE /\ event' = [op |-> "failed", loc |-> 0]
                   /\ UNCHANGED <<cpc, stack, scopeVars, resolver>>
    /\ UNCHANGED <<limit, nodes, sites>>
    /\ UNCHANGED vars

\* Scanner::scan_file has scanned the last item of the file and returns.
ScanFileReturn ==
    /\ Scanning
    /\ last(stack).kind = "file"
    /\ cpc' = "files"
    /\ Return
    /\ event' = [op |-> "scan_file_return", loc |-> 0]
    /\ UNCHANGED <<crate, limit, nodes, data, scopeVars, resolver, sites>>
    /\ UNCHANGED vars

\* The loop over the files is over, or there was no file to scan:
\* scan_crate_with_sinks returns Ok(scan_results).
ScanCrateReturn ==
    /\ cpc = "files"
    /\ crate.layout = "lib" => crate.files = 1
    /\ cpc' = "ok"
    /\ event' = [op |-> "return", loc |-> 0]
    /\ UNCHANGED <<crate, limit, nodes, stack, data, scopeVars, resolver, sites>>
    /\ UNCHANGED vars

\* ------------------------------------------------------------------ items

\* The item carries a cfg attribute that skip_attrs accepts: the handler
\* counts the item as skipped conditional code and returns.
SkipOps ==
    {"skip mod", "skip foreign mod", "skip trait", "skip impl", "skip fn",
     "skip method"}

Skip(op, lines) ==
    /\ data' = [data EXCEPT !.skipped_conditional_code = add(@, lines)]
    /\ Visit
    /\ Step(op)
    /\ UNCHANGED <<scopeVars, resolver>>

\* A scan_foreign_mod that counts itself as unsafe before it looks at the
\* attributes.
scan_foreign_mod_eager(skip, lines) ==
    /\ AtItem
    /\ More
    /\ scope_unsafe' = scope_unsafe + 1
    /\ IF skip
       THEN /\ data' = [data EXCEPT !.skipped_conditional_code = add(@, lines)]
            /\ Visit
            /\ Step("skip foreign mod")
       ELSE /\ Enter(Frame("foreign_mod", Loc))
            /\ Step("scan_foreign_mod")
            /\ UNCHANGED data
    /\ UNCHANGED <<scope_effect_blocks, scope_assign_lhs, scope_fns, resolver>>
    /\ UNCHANGED <<driverVars, sites>>
    /\ UNCHANGED vars

\* scan_item on Item::Mod: scan_mod, up to its loop over the items of a
\* module that has a body.
scan_mod(skip, content, lines) ==
    /\ AtItem
    /\ More
    /\ IF skip THEN Skip("skip mod", lines)
       ELSE IF content
            THEN /\ resolver' = Append(resolver, "mod")
                 /\ Enter(Frame("mod", Loc))
                 /\ Step("scan_mod")
                 /\ UNCHANGED <<data, scopeVars>>
            ELSE /\ Visit
                 /\ Step("scan_mod")
                 /\ UNCHANGED <<data, scopeVars, resolver>>
    /\ UNCHANGED <<driverVars, sites>>
    /\ UNCHANGED vars

\* scan_mod after its loop: resolver.pop_mod().
scan_mod_return ==
    /\ Scanning
    /\ last(stack).kind = "mod"
    /\ resolver' = pop(resolver)
    /\ Return
    /\ Back("scan_mod_return")
    /\ UNCHANGED <<driverVars, nodes, data, scopeVars, sites>>
    /\ UNCHANGED vars

\* scan_item on Item::Use (handed to the resolver), on Item::Macro (counted
\* in skipped_macros) and on the items scan_item has no arm for.
scan_item_leaf(kind, lines) ==
    /\ AtItem
    /\ More
    /\ data' = IF kind = "Macro"
               THEN [data EXCEPT !.skipped_macros = add(@, lines)]
               ELSE data
    /\ Visit
    /\ Step("scan_item " \o kind)
    /\ UNCHANGED <<driverVars, scopeVars, resolver, sites>>
    /\ UNCHANGED vars

\* scan_item on Item::ForeignMod: scan_foreign_mod, up to its loop.
scan_foreign_mod(skip, lines) ==
    /\ AtItem
    /\ More
    /\ IF skip THEN Skip("skip foreign mod", lines)
       ELSE /\ scope_unsafe' = scope_unsafe + 1
            /\ Enter(Frame("foreign_mod", Loc))
            /\ Step("scan_foreign_mod")
            /\ UNCHANGED <<data, scope_effect_blocks, scope_assign_lhs,
                           scope_fns, resolver>>
    /\ UNCHANGED <<driverVars, sites>>
    /\ UNCHANGED vars

\* scan_foreign_item: a function goes to the resolver, a macro is counted in
\* skipped_macros, anything else in skipped_other.
scan_foreign_item(kind, lines) ==
    /\ Scanning
    /\ last(stack).kind = "foreign_mod"
    /\ More
    /\ data' = IF kind = "Fn" THEN data
               ELSE IF kind = "Macro"
                    THEN [data EXCEPT !.skipped_macros = add(@, lines)]
               ELSE [data EXCEPT !.skipped_other = add(@, lines)]
    /\ Visit
    /\ Step("scan_foreign_item " \o kind)
    /\ UNCHANGED <<driverVars, scopeVars, resolver, sites>>
    /\ UNCHANGED vars

\* scan_foreign_mod after its loop.
scan_foreign_mod_return ==
    /\ Scanning
    /\ last(stack).kind = "foreign_mod"
    /\ scope_unsafe' = scope_unsafe - 1
    /\ Return
    /\ Back("scan_foreign_mod_return")
    /\ UNCHANGED <<driverVars, nodes, data, scope_effect_blocks,
                   scope_assign_lhs, scope_fns, resolver, sites>>
    /\ UNCHANGED vars

\* TraitDec::new and TraitImpl::new
TraitDec(loc) == [loc |-> loc, trait_name |-> "Trait"]

\* scan_item on Item::Trait: scan_trait records an unsafe trait.
scan_trait(skip, unsafety, lines) ==
    /\ AtItem
    /\ More
    /\ IF skip THEN Skip("skip trait", lines)
       ELSE /\ data' = IF unsafety
                       THEN [data EXCEPT !.unsafe_traits = Append(@, TraitDec(Loc))]
                       ELSE data
            /\ Visit
            /\ Step("scan_trait")
            /\ UNCHANGED <<scopeVars, resolver>>
    /\ UNCHANGED <<driverVars, sites>>
    /\ UNCHANGED vars

\* scan_item on Item::Impl: scan_impl, up to its loop over the impl items;
\* scan_impl_trait_path records an unsafe impl of a trait.
scan_impl(skip, trait_, unsafety, lines) ==
    /\ AtItem
    /\ More
    /\ IF skip THEN Skip("skip impl", lines)
       ELSE /\ resolver' = Append(resolver, "impl")
            /\ data' = IF trait_ /\ unsafety
                       THEN [data EXCEPT !.unsafe_impls = Append(@, TraitDec(Loc))]
                       ELSE data
            /\ Enter(Frame("impl", Loc))
            /\ Step("scan_impl")
            /\ UNCHANGED scopeVars
    /\ UNCHANGED <<driverVars, sites>>
    /\ UNCHANGED vars

\* The arms of scan_impl's loop but ImplItem::Fn: a macro is counted in
\* skipped_macros, a verbatim item is logged, anything else is counted in
\* skipped_other.
scan_impl_item(kind, lines) ==
    /\ Scanning
    /\ last(stack).kind = "impl"
    /\ More
    /\ data' = IF kind = "Macro"
               THEN [data EXCEPT !.skipped_macros = add(@, lines)]
               ELSE IF kind = "Verbatim" THEN data
               ELSE [data EXCEPT !.skipped_other = add(@, lines)]
    /\ Visit
    /\ Step("scan_impl_item " \o kind)
    /\ UNCHANGED <<driverVars, scopeVars, resolver, sites>>
    /\ UNCHANGED vars

\* scan_impl after its loop: resolver.pop_impl().
scan_impl_return ==
    /\ Scanning
    /\ last(stack).kind = "impl"
    /\ resolver' = pop(resolver)
    /\ Return
    /\ Back("scan_impl_return")
    /\ UNCHANGED <<driverVars, nodes, data, scopeVars, sites>>
    /\ UNCHANGED vars

\* scan_fn, up to its loop over the statements of the body; f_name is what
\* resolve_def gives the function's identifier.
scan_fn(f_name, unsafety, vis) ==
    LET fn_dec == FnDec(f_name, Loc, vis)
    IN  /\ scope_fns' = Append(scope_fns, fn_dec)
        /\ resolver' = Append(resolver, "fn")
        /\ data' = add_fn_dec(data, fn_dec)
        /\ scope_unsafe' = IF unsafety THEN scope_unsafe + 1 ELSE scope_unsafe
        /\ scope_effect_blocks' =
                Append(scope_effect_blocks,
                       EffectBlock(IF unsafety THEN "UnsafeFn" ELSE "NormalFn",
                                   Loc, f_name))
        /\ Enter([Frame("fn", Loc) EXCEPT !.name = f_name, !.is_unsafe = unsafety])
        /\ Step("scan_fn")
        /\ UNCHANGED scope_assign_lhs

\* scan_item on Item::Fn: scan_fn_decl.
scan_fn_decl(skip, f_name, unsafety, vis, lines) ==
    /\ AtItem
    /\ More
    /\ IF skip THEN Skip("skip fn", lines)
       ELSE scan_fn(f_name, unsafety, vis)
    /\ UNCHANGED <<driverVars, sites>>
    /\ UNCHANGED vars

\* scan_impl's loop on ImplItem::Fn: scan_method.
scan_method(skip, f_name, unsafety, vis, lines) ==
    /\ Scanning
    /\ last(stack).kind = "impl"
    /\ More
    /\ IF skip THEN Skip("skip method", lines)
       ELSE scan_fn(f_name, unsafety, vis)
    /\ UNCHANGED <<driverVars, sites>>
    /\ UNCHANGED vars

\* A scan_fn whose return forgets that the function was unsafe.
scan_fn_return_unsafe_kept ==
    /\ Scanning
    /\ last(stack).kind = "fn"
    /\ scope_fns' = pop(scope_fns)
    /\ resolver' = pop(resolver)
    /\ data' = [data EXCEPT !.effect_blocks = Append(@, last(scope_effect_blocks))]
    /\ scope_effect_blocks' = pop(scope_effect_blocks)
    /\ Return
    /\ Back("scan_fn_return")
    /\ UNCHANGED <<driverVars, nodes, scope_unsafe, scope_assign_lhs, sites>>
    /\ UNCHANGED vars

\* scan_fn after its loop: the function leaves scope_fns and the resolver,
\* its block moves from scope_effect_blocks to effect_blocks, and an unsafe
\* function stops counting in scope_unsafe.
scan_fn_return ==
    /\ Scanning
    /\ last(stack).kind = "fn"
    /\ scope_fns' = pop(scope_fns)
    /\ resolver' = pop(resolver)
    /\ data' = [data EXCEPT !.effect_blocks = Append(@, last(scope_effect_blocks))]
    /\ scope_effect_blocks' = pop(scope_effect_blocks)
    /\ scope_unsafe' = IF last(stack).is_unsafe THEN scope_unsafe - 1
                       ELSE scope_unsafe
    /\ Return
    /\ Back("scan_fn_return")
    /\ UNCHANGED <<driverVars, nodes, scope_assign_lhs, sites>>
    /\ UNCHANGED vars

\* ------------------------------------------------------------ expressions

\* scan_fn_statement on Stmt::Macro and scan_expr on Expr::Macro: counted in
\* skipped_macros.
scan_macro(lines) ==
    /\ AtExpr
    /\ More
    /\ data' = [data EXCEPT !.skipped_macros = add(@, lines)]
    /\ Visit
    /\ Step("scan_macro")
    /\ UNCHANGED <<driverVars, scopeVars, resolver, sites>>
    /\ UNCHANGED vars

\* scan_expr on Expr::Lit, and on Expr::Path of a local variable, for which
\* scan_path finds nothing to report.
scan_expr_leaf ==
    /\ AtExpr
    /\ More
    /\ Visit
    /\ Step("scan_expr")
    /\ UNCHANGED <<driverVars, data, scopeVars, resolver, sites>>
    /\ UNCHANGED vars

\* scan_expr on Expr::Block (a let statement hands its initializer to
\* scan_expr as well): the loop over the statements begins.
scan_expr_block ==
    /\ AtExpr
    /\ More
    /\ Enter(Frame("block", Loc))
    /\ Step("scan_expr_block")
    /\ UNCHANGED <<driverVars, data, scopeVars, resolver, sites>>
    /\ UNCHANGED vars

scan_expr_block_return ==
    /\ Scanning
    /\ last(stack).kind = "block"
    /\ Return
    /\ Back("scan_expr_block_return")
    /\ UNCHANGED <<driverVars, nodes, data, scopeVars, resolver, sites>>
    /\ UNCHANGED vars

\* scan_expr on Expr::Assign: the flag is set and the left operand is about
\* to be scanned.
scan_expr_assign ==
    /\ AtExpr
    /\ More
    /\ scope_assign_lhs' = TRUE
    /\ Enter(Frame("assign_left", Loc))
    /\ Step("scan_expr_assign")
    /\ UNCHANGED <<driverVars, data, scope_effect_blocks, scope_unsafe,
                   scope_fns, resolver, sites>>
    /\ UNCHANGED vars

\* Expr::Assign after the left operand: the flag is cleared and the right
\* operand is about to be scanned.
scan_expr_assign_right ==
    /\ Scanning
    /\ last(stack).kind = "assign_left"
    /\ last(stack).n = 1
    /\ scope_assign_lhs' = FALSE
    /\ stack' = [stack EXCEPT ![Len(stack)].kind = "assign_right",
                              ![Len(stack)].n = 0]
    /\ Back("scan_expr_assign_right")
    /\ UNCHANGED <<driverVars, nodes, data, scope_effect_blocks, scope_unsafe,
                   scope_fns, resolver, sites>>
    /\ UNCHANGED vars

\* Expr::Assign after the right operand.
scan_expr_assign_return ==
    /\ Scanning
    /\ last(stack).kind = "assign_right"
    /\ last(stack).n = 1
    /\ Return
    /\ Back("scan_expr_assign_return")
    /\ UNCHANGED <<driverVars, nodes, data, scopeVars, resolver, sites>>
    /\ UNCHANGED vars

\* What a field's member may be: a named field of a union, a named field of
\* something else, or a tuple index.
Members == {"union", "plain", "unnamed"}

\* scan_expr on Expr::Field: the base is about to be scanned.
scan_expr_field(member) ==
    /\ AtExpr
    /\ More
    /\ Enter([Frame("field", Loc) EXCEPT !.name = member,
                                         !.role = Role(last(stack))])
    /\ Step("scan_expr_field")
    /\ UNCHANGED <<driverVars, data, scopeVars, resolver, sites>>
    /\ UNCHANGED vars

\* Expr::Field after the base: scan_field_access reports the named field of
\* a union unless the flag is set.
scan_field_access ==
    /\ Scanning
    /\ last(stack).kind = "field"
    /\ last(stack).n = 1
    /\ IF last(stack).name # "union" \/ scope_assign_lhs
       THEN UNCHANGED <<data, scope_effect_blocks>>
       ELSE LET r == push_effect(data, scope_effect_blocks, scope_fns,
                                 "field", last(stack).loc, "UnionField")
            IN  /\ data' = r.data
                /\ scope_effect_blocks' = r.scope_effect_blocks
    /\ sites' = sites \cup {Site("field", last(stack))}
    /\ Return
    /\ Back("scan_field_access")
    /\ UNCHANGED <<driverVars, nodes, scope_unsafe, scope_assign_lhs, scope_fns,
                   resolver>>
    /\ UNCHANGED vars

\* scan_expr on Expr::Closure: scan_closure reports the creation of the
\* closure if create_closure_ident gives it an identifier; the body is not
\* handed to scan_expr.  body_call tells that the body holds a call
\* expression.
scan_closure(ident, body_call) ==
    /\ AtExpr
    /\ More
    /\ IF ident
       THEN LET r == push_effect(data, scope_effect_blocks, scope_fns,
                                 "closure", Loc, "ClosureCreation")
            IN  /\ data' = r.data
                /\ scope_effect_blocks' = r.scope_effect_blocks
       ELSE UNCHANGED <<data, scope_effect_blocks>>
    /\ sites' = IF body_call
                THEN sites \cup {Site("call unvisited", Frame("closure", Loc))}
                ELSE sites
    /\ Visit
    /\ Step("scan_closure")
    /\ UNCHANGED <<driverVars, scope_unsafe, scope_assign_lhs, scope_fns, resolver>>
    /\ UNCHANGED vars

\* scan_expr on Expr::Unsafe: scan_unsafe_block, up to its loop over the
\* statements of the block.
scan_unsafe_block ==
    /\ AtExpr
    /\ More
    /\ scope_unsafe' = scope_unsafe + 1
    /\ scope_effect_blocks' =
            Append(scope_effect_blocks,
                   EffectBlock("UnsafeExpr", Loc, last(scope_fns).fn_name))
    /\ Enter(Frame("unsafe", Loc))
    /\ Step("scan_unsafe_block")
    /\ UNCHANGED <<driverVars, data, scope_assign_lhs, scope_fns, resolver, sites>>
    /\ UNCHANGED vars

\* A scan_unsafe_block that leaves scope_unsafe as it is when it returns.
scan_unsafe_block_return_kept ==
    /\ Scanning
    /\ last(stack).kind = "unsafe"
    /\ data' = [data EXCEPT !.effect_blocks = Append(@, last(scope_effect_blocks))]
    /\ scope_effect_blocks' = pop(scope_effect_blocks)
    /\ Return
    /\ Back("scan_unsafe_block_return")
    /\ UNCHANGED <<driverVars, nodes, scope_unsafe, scope_assign_lhs, scope_fns,
                   resolver, sites>>
    /\ UNCHANGED vars

\* scan_unsafe_block after its loop.
scan_unsafe_block_return ==
    /\ Scanning
    /\ last(stack).kind = "unsafe"
    /\ data' = [data EXCEPT !.effect_blocks = Append(@, last(scope_effect_blocks))]
    /\ scope_effect_blocks' = pop(scope_effect_blocks)
    /\ scope_unsafe' = scope_unsafe - 1
    /\ Return
    /\ Back("scan_unsafe_block_return")
    /\ UNCHANGED <<driverVars, nodes, scope_assign_lhs, scope_fns, resolver, sites>>
    /\ UNCHANGED vars

\* What the function of an Expr::Call may be, parentheses taken off: a
\* path, a field with a named or an unnamed member, a macro, or another
\* expression.
Funcs == {"Path", "Named", "Unnamed", "Macro", "Other"}

\* The functions for which scan_expr_call pushes a call site.
CallFuncs == {"Path", "Named", "Unnamed"}

\* The functions that have an expression below them: the base of the field,
\* or the other expression itself.
NestingFuncs == {"Named", "Unnamed", "Other"}

\* scan_expr on Expr::Call: the arguments are about to be scanned; func is
\* the form of the function, callee what the resolver gives it as its path
\* and reported what the resolver says of its unsafety; hidden tells that
\* the function holds a call expression below it, which neither scan_expr
\* nor scan_expr_call hands to scan_expr.
scan_expr_call_args(func, callee, reported, hidden) ==
    /\ AtExpr
    /\ More
    /\ hidden => func \in NestingFuncs
    /\ LET frame == [Frame("call", Loc) EXCEPT !.name = callee,
                                               !.is_unsafe = reported,
                                               !.role = func]
       IN  /\ Enter(frame)
           /\ sites' = IF hidden
                       THEN sites \cup {Site("call unvisited", frame)}
                       ELSE sites
    /\ Step("scan_expr_call_args")
    /\ UNCHANGED <<driverVars, data, scopeVars, resolver>>
    /\ UNCHANGED vars

\* scan_expr_call_field: the new ScanResults and scope_effect_blocks; the
\* Unnamed arm does not ask the resolver.
scan_expr_call_field(member, callee, loc, reported) ==
    IF member = "Named"
    THEN push_callsite(data, scope_effect_blocks, scope_fns, callee, loc,
                       reported /\ scope_unsafe > 0)
    ELSE push_callsite(data, scope_effect_blocks, scope_fns, callee, loc,
                       scope_unsafe > 0)

\* Expr::Call after the arguments: scan_expr_call pushes the call site of a
\* path or a field, counts a macro in skipped_macros and any other
\* expression in skipped_fn_calls.
scan_expr_call ==
    /\ Scanning
    /\ last(stack).kind = "call"
    /\ LET f == last(stack)
       IN  IF f.role \in CallFuncs
           THEN LET r == IF f.role = "Path"
                         THEN push_callsite(data, scope_effect_blocks, scope_fns,
                                            f.name, f.loc,
                                            f.is_unsafe /\ scope_unsafe > 0)
                         ELSE scan_expr_call_field(f.role, f.name, f.loc,
                                                   f.is_unsafe)
                IN  /\ data' = r.data
                    /\ scope_effect_blocks' = r.scope_effect_blocks
                    /\ sites' = sites \cup {Site("call", f)}
           ELSE /\ \E lines \in SpanLines :
                    data' = IF f.role = "Macro"
                            THEN [data EXCEPT !.skipped_macros = add(@, lines)]
                            ELSE [data EXCEPT !.skipped_fn_calls = add(@, lines)]
                /\ sites' = sites \cup {Site("call skipped", f)}
                /\ UNCHANGED scope_effect_blocks
    /\ Return
    /\ Back("scan_expr_call")
    /\ UNCHANGED <<driverVars, nodes, scope_unsafe, scope_assign_lhs, scope_fns,
                   resolver>>
    /\ UNCHANGED vars

\* scan_expr on Expr::MethodCall: the receiver is about to be scanned, and
\* the arguments after it.
scan_expr_method_call(callee, reported) ==
    /\ AtExpr
    /\ More
    /\ Enter([Frame("method", Loc) EXCEPT !.name = callee, !.is_unsafe = reported,
                                          !.role = "Method"])
    /\ Step("scan_expr_method_call")
    /\ UNCHANGED <<driverVars, data, scopeVars, resolver, sites>>
    /\ UNCHANGED vars

\* Expr::MethodCall after the receiver and the arguments:
\* scan_expr_call_method pushes the call site.
scan_expr_call_method ==
    /\ Scanning
    /\ last(stack).kind = "method"
    /\ last(stack).n >= 1
    /\ LET r == push_callsite(data, scope_effect_blocks, scope_fns,
                              last(stack).name, last(stack).loc,
                              last(stack).is_unsafe /\ scope_unsafe > 0)
       IN  /\ data' = r.data
           /\ scope_effect_blocks' = r.scope_effect_blocks
    /\ sites' = sites \cup {Site("call", last(stack))}
    /\ Return
    /\ Back("scan_expr_call_method")
    /\ UNCHANGED <<driverVars, nodes, scope_unsafe, scope_assign_lhs, scope_fns,
                   resolver>>
    /\ UNCHANGED vars

\* --------------------------------------------------------- specifications

\* A crate that passes the checks of scan_crate_with_sinks and has a src
\* directory.
GoodCrate ==
    [is_dir |-> TRUE,
     cargo_toml |-> [entry |-> "file", text |-> "table", package |-> "table",
                     name |-> "string", version |-> "string"],
     resolver_ok |-> TRUE, layout |-> "src", files |-> 0]

\* A crate that passes the checks and has no src directory but a lib.rs.
LibCrate == [GoodCrate EXCEPT !.layout = "lib"]

ScanInit ==
    /\ allow_sets = EmptyMap
    /\ require_sets = EmptyMap
    /\ pc = "new"
    /\ calls = EmptyBag
    /\ call = [op |-> "none"]
    /\ NoScan

\* Crates whose files nest modules, impl blocks, traits, foreign modules,
\* functions and unsafe blocks, some of them under a skipped cfg attribute.
MaxItemNodes == 4

NextItems ==
    \/ ScanCrate(LibCrate, MaxItemNodes)
    \/ TryScanFile("none", 1)
    \/ ScanFileReturn
    \/ ScanCrateReturn
    \/ \E skip \in BOOLEAN, lines \in SpanLines : scan_mod(skip, TRUE, lines)
    \/ scan_mod_return
    \/ \E skip \in BOOLEAN : scan_foreign_mod(skip, 1)
    \/ scan_foreign_mod_return
    \/ \E skip \in BOOLEAN : scan_trait(skip, ~skip, 1)
    \/ \E skip \in BOOLEAN : scan_impl(skip, FALSE, FALSE, 1)
    \/ scan_impl_return
    \/ \E skip, unsafety \in BOOLEAN :
            scan_fn_decl(skip, "f", unsafety /\ ~skip, "Other", 1)
    \/ \E skip, unsafety \in BOOLEAN :
            scan_method(skip, "f", unsafety /\ ~skip, "Other", 1)
    \/ scan_fn_return
    \/ scan_unsafe_block
    \/ scan_unsafe_block_return

SpecItems == ScanInit /\ [][NextItems]_allVars

\* Crates whose files declare functions, nested or one after the other and
\* possibly under the same canonical path, with unsafe blocks, calls and
\* reads of union fields in their bodies.
MaxCallNodes == 4

NextCalls ==
    \/ ScanCrate(GoodCrate, MaxCallNodes)
    \/ TryScanFile("none", 1)
    \/ ScanFileReturn
    \/ ScanCrateReturn
    \/ \E f_name \in FnNames : scan_fn_decl(FALSE, f_name, FALSE, "Public", 1)
    \/ scan_fn_return
    \/ scan_unsafe_block
    \/ scan_unsafe_block_return
    \/ \E callee \in Callees : scan_expr_call_args("Path", callee, FALSE, FALSE)
    \/ scan_expr_call
    \/ scan_expr_field("union")
    \/ scan_field_access
    \/ scan_expr_leaf

SpecCalls == ScanInit /\ [][NextCalls]_allVars

\* Crates whose one file declares functions with assignments, field
\* accesses and blocks in their bodies.
MaxExprNodes == 6

NextExprs ==
    \/ ScanCrate(LibCrate, MaxExprNodes)
    \/ TryScanFile("none", 1)
    \/ ScanFileReturn
    \/ ScanCrateReturn
    \/ scan_fn_decl(FALSE, "f", FALSE, "Other", 1)
    \/ scan_fn_return
    \/ scan_expr_assign
    \/ scan_expr_assign_right
    \/ scan_expr_assign_return
    \/ \E member \in {"union", "plain"} : scan_expr_field(member)
    \/ scan_field_access
    \/ scan_expr_block
    \/ scan_expr_block_return
    \/ scan_expr_leaf

SpecExprs == ScanInit /\ [][NextExprs]_allVars

\* Any crate path, with files that fail to load or declare functions that
\* call functions.
MaxCrateNodes == 3

NextCrate ==
    \/ \E c \in Crates : ScanCrate(c, MaxCrateNodes)
    \/ \E fault \in Faults, lines \in SpanLines : TryScanFile(fault, lines)
    \/ ScanFileReturn
    \/ ScanCrateReturn
    \/ \E f_name \in FnNames : scan_fn_decl(FALSE, f_name, FALSE, "Public", 1)
    \/ scan_fn_return
    \/ scan_expr_call_args("Path", "f", FALSE, FALSE)
    \/ scan_expr_call

SpecCrate == ScanInit /\ [][NextCrate]_allVars

\* ---------------------------------------------------------- scanner claims

\* C13: when Scanner::scan_file returns, and whenever it stands between two
\* top-level items of the file, scope_effect_blocks is empty, scope_unsafe
\* is 0 and scope_fns is empty, whatever modules, impl blocks, functions,
\* nested functions, unsafe blocks, foreign modules and cfg-skipped items the
\* file nests.
C13_StackBalance ==
    (\/ event.op = "scan_file_return"
     \/ Scanning /\ last(stack).kind = "file")
    => /\ scope_effect_blocks = << >>
       /\ scope_unsafe = 0
       /\ scope_fns = << >>

\* scan_file has returned from a file in which an unsafe function holds an
\* unsafe block and a nested function, and an item was skipped.
C13_Witness ==
    /\ event.op = "scan_file_return"
    /\ scope_effect_blocks = << >> /\ scope_unsafe = 0 /\ scope_fns = << >>
    /\ \E i, j, k \in 1..Len(data.effect_blocks) :
        /\ data.effect_blocks[i].block_type = "UnsafeExpr"
        /\ data.effect_blocks[j].block_type = "NormalFn"
        /\ data.effect_blocks[k].block_type = "UnsafeFn"
        /\ i < k /\ j < k
    /\ data.skipped_conditional_code.instances = 1

\* C18: scanning a module, function, method, impl block, trait or foreign
\* module that carries a cfg attribute for which skip_cfg is true adds one
\* span to skipped_conditional_code and changes nothing else: not the other
\* fields of the ScanResults, not scope_effect_blocks, scope_unsafe,
\* scope_assign_lhs or scope_fns, not the scopes of the resolver.
C18_CfgSkipTouchesOneCounter ==
    [][event'.op \in SkipOps /\ event'.loc = nodes' /\ nodes' # nodes =>
        /\ data'.skipped_conditional_code.instances =
                data.skipped_conditional_code.instances + 1
        /\ data' = [data EXCEPT !.skipped_conditional_code =
                                    data'.skipped_conditional_code]
        /\ UNCHANGED <<scopeVars, resolver>>]_allVars

\* A method under a skipped cfg attribute was scanned inside an impl block
\* that stands in the body of an unsafe function.
C18_Witness ==
    /\ event.op = "skip method"
    /\ scope_unsafe = 1
    /\ Len(scope_fns) = 1
    /\ resolver = <<"fn", "impl">>
    /\ data.skipped_conditional_code.instances = 1
    /\ data.effect_blocks = << >>

\* The effect blocks the scanner holds: the finished ones and the open ones.
AllBlocks == data.effect_blocks \o scope_effect_blocks

\* The blocks, by their place in AllBlocks, that hold the effect eff.
BlocksOf(eff) ==
    {k \in DOMAIN AllBlocks :
        \E j \in DOMAIN AllBlocks[k].effects : AllBlocks[k].effects[j] = eff}

\* C14: every effect in effects is held by exactly one effect block, the
\* block of the innermost unsafe block or function body around its site, and
\* the containing function of that block is the function around the site;
\* once the scan of the file is over that block is in effect_blocks.
C14_BlockContainment ==
    /\ ~Scanning => scope_effect_blocks = << >>
    /\ \A i \in DOMAIN data.effects :
        LET eff == data.effects[i]
        IN  /\ Cardinality(BlocksOf(eff)) = 1
            /\ \A k \in BlocksOf(eff) : \A s \in sites :
                    s.loc = eff.loc =>
                        /\ AllBlocks[k].loc = s.block
                        /\ AllBlocks[k].containing_fn = s.fn
                        /\ eff.caller = s.fn

\* The scan is over; a call in an unsafe block of g, itself nested in f, is
\* held by the block of the unsafe block.
C14_Witness ==
    /\ cpc = "ok"
    /\ \E i \in DOMAIN data.effects, k \in DOMAIN data.effect_blocks :
        /\ data.effects[i].kind = "Call"
        /\ data.effects[i].caller = "g"
        /\ BlocksOf(data.effects[i]) = {k}
        /\ data.effect_blocks[k].block_type = "UnsafeExpr"
        /\ data.effect_blocks[k].containing_fn = "g"
    /\ Len(data.effect_blocks) = 3
    /\ data.fn_locs["f"] < data.fn_locs["g"]

\* C15: every edge of the call graph joins two nodes whose paths are keys of
\* node_idxs, and effects holds a Call effect with the caller, the callee and
\* the source location of the edge.
C15_CallGraphSoundness ==
    \A i \in DOMAIN data.call_graph.edges :
        LET edge == data.call_graph.edges[i]
            u == data.call_graph.nodes[edge.from]
            v == data.call_graph.nodes[edge.to]
        IN  /\ u \in DOMAIN data.node_idxs
            /\ v \in DOMAIN data.node_idxs
            /\ \E j \in DOMAIN data.effects :
                /\ data.effects[j].kind = "Call"
                /\ data.effects[j].caller = u
                /\ data.effects[j].callee = v
                /\ data.effects[j].loc = edge.loc

\* The graph holds an edge from g to f and an edge from g to itself.
C15_Witness ==
    /\ Len(data.call_graph.edges) = 2
    /\ \E i, j \in DOMAIN data.call_graph.edges :
        /\ data.call_graph.nodes[data.call_graph.edges[i].from] = "g"
        /\ data.call_graph.nodes[data.call_graph.edges[i].to] = "f"
        /\ data.call_graph.nodes[data.call_graph.edges[j].from] = "g"
        /\ data.call_graph.nodes[data.call_graph.edges[j].to] = "g"

\* C16: node_idxs is in bijection with the node set of the call graph: each
\* node's path is a key, and each key's index is a node of that path, one
\* key for one node.
C16_NodeIdxsBijection ==
    /\ \A k \in DOMAIN data.node_idxs :
            /\ data.node_idxs[k] \in DOMAIN data.call_graph.nodes
            /\ data.call_graph.nodes[data.node_idxs[k]] = k
    /\ \A n \in DOMAIN data.call_graph.nodes :
            /\ data.call_graph.nodes[n] \in DOMAIN data.node_idxs
            /\ data.node_idxs[data.call_graph.nodes[n]] = n

\* How many UnionField effects the scanner reported at a source location.
UnionFieldEffects(loc) ==
    Cardinality({i \in DOMAIN data.effects :
                    /\ data.effects[i].kind = "UnionField"
                    /\ data.effects[i].loc = loc
                    /\ data.effects[i].callee = "field"})

\* C17: a union-member field access that is the left operand of an
\* assignment gets no UnionField effect, whatever its base holds, and a
\* union-member field access that is read (in the right operand, in a let
\* initializer or statement of a block, in any expression that is not an
\* assignment) gets exactly one, whose target is the resolved field path.
C17_UnionFieldOnlyOnReads ==
    \A s \in sites :
        s.kind = "field" /\ s.name = "union" =>
            /\ s.role = "written" => UnionFieldEffects(s.loc) = 0
            /\ s.role = "read" => UnionFieldEffects(s.loc) = 1

\* C19: a file that cannot be opened, read or parsed (or for which no file
\* resolver can be made) leaves the ScanResults as they were; the loop over
\* the files goes on, so that no error return of scan_crate_with_sinks comes
\* after a file was tried, and the loop ends in Ok.
C19_FileFailureIsolated ==
    /\ [][event'.op = "failed" /\ crate'.files # crate.files =>
            /\ data' = data
            /\ cpc' = "files"
            /\ UNCHANGED <<stack, scopeVars>>]_allVars
    /\ [][cpc = "files" => cpc' \in {"files", "scanning", "ok"}]_allVars
    /\ [](cpc = "err" => crate.files = 0 /\ data = ScanResults_new)

\* The second file of the crate is being scanned after the first one
\* failed: total_loc counts one file, and the function declared in it is in
\* the call graph.
C19_Witness ==
    /\ cpc = "scanning"
    /\ crate.files = 2
    /\ data.total_loc.instances = 1
    /\ data.call_graph.nodes = <<"g">>
    /\ data.effects = << >>

\* The crate paths of C20: not a directory, without a regular file
\* Cargo.toml, or with a manifest that lacks a string package.name or a
\* string package.version.
NoManifest(c) ==
    \/ ~c.is_dir
    \/ c.cargo_toml.entry \in {"missing", "dir"}
    \/ /\ c.cargo_toml.entry = "file"
       /\ \/ c.cargo_toml.name # "string"
          \/ c.cargo_toml.version # "string"

\* C20: on a crate path that is not a directory, has no regular file
\* Cargo.toml, or whose manifest lacks a string package.name or
\* package.version, scan_crate_with_sinks returns an error and tries no
\* source file.
C20_MissingManifestIsFatal ==
    cpc # "start" /\ NoManifest(crate) =>
        /\ cpc = "err"
        /\ crate.files = 0
        /\ nodes = 0
        /\ data = ScanResults_new

\* scan_crate_with_sinks returned an error for a crate with a src directory
\* whose manifest has a name and, as version, something else than a string.
C20_Witness ==
    /\ cpc = "err"
    /\ crate.is_dir
    /\ crate.cargo_toml.name = "string"
    /\ crate.cargo_toml.version = "other"
    /\ crate.resolver_ok
    /\ crate.layout = "src"

\* ------------------------------------------------------- unsafety of calls

\* Crates whose one file declares safe and unsafe functions whose bodies hold
\* unsafe blocks and calls of every form: of a path, of a named and of an
\* unnamed field, and of a method.
MaxUnsafeNodes == 4

NextUnsafe ==
    \/ ScanCrate(LibCrate, MaxUnsafeNodes)
    \/ TryScanFile("none", 1)
    \/ ScanFileReturn
    \/ ScanCrateReturn
    \/ \E unsafety \in BOOLEAN : scan_fn_decl(FALSE, "f", unsafety, "Other", 1)
    \/ scan_fn_return
    \/ scan_unsafe_block
    \/ scan_unsafe_block_return
    \/ \E func \in CallFuncs, reported \in BOOLEAN :
            scan_expr_call_args(func, "g", reported, FALSE)
    \/ scan_expr_call
    \/ \E reported \in BOOLEAN : scan_expr_method_call("g", reported)
    \/ scan_expr_call_method
    \/ scan_expr_leaf

SpecUnsafe == ScanInit /\ [][NextUnsafe]_allVars

\* The call sites scanned at a source location.
CallSitesAt(loc) == {s \in sites : s.kind = "call" /\ s.loc = loc}

\* C24: every Call effect, of a path call, a method call, a call of a named
\* field or a call of an indexed tuple field, has is_unsafe true exactly when
\* the resolver reports the callee unsafe and the call stands in an unsafe
\* scope; so a callee that is not reported unsafe never has it true, and no
\* call outside every unsafe scope has it true.
C24_CallUnsafeIffReportedInUnsafeScope ==
    \A i \in DOMAIN data.effects :
        data.effects[i].kind = "Call" =>
            \A s \in CallSitesAt(data.effects[i].loc) :
                data.effects[i].is_unsafe
                    <=> (s.reported /\ s.unsafe_scopes > 0)

MaxVisitNodes == 4

NextVisit ==
    \/ ScanCrate(LibCrate, MaxVisitNodes)
    \/ TryScanFile("none", 1)
    \/ ScanFileReturn
    \/ ScanCrateReturn
    \/ scan_fn_decl(FALSE, "f", FALSE, "Other", 1)
    \/ scan_fn_return
    \/ \E func \in Funcs, hidden \in BOOLEAN :
            scan_expr_call_args(func, "g", FALSE, hidden)
    \/ scan_expr_call
    \/ scan_expr_method_call("g", FALSE)
    \/ scan_expr_call_method
    \/ \E ident, body_call \in BOOLEAN : scan_closure(ident, body_call)
    \/ scan_expr_leaf

SpecVisit == ScanInit /\ [][NextVisit]_allVars

\* How many Call effects the scanner reported at a source location.
CallEffects(loc) ==
    Cardinality({i \in DOMAIN data.effects :
                    /\ data.effects[i].kind = "Call"
                    /\ data.effects[i].loc = loc})

\* The call expressions of the function bodies scanned so far: the ones
\* whose call site was pushed, the ones whose function is a macro or
\* another expression, and the ones below an expression that was not
\* handed to scan_expr.
CallExprs ==
    {s \in sites : s.kind \in {"call", "call skipped", "call unvisited"}}

\* C26: every call expression nested anywhere in a function body (in an
\* argument, a receiver, the base of a called field, the callee expression,
\* the body of a closure) produces exactly one Call effect, once the scanner
\* is past it.
C26_EveryCallExprOneEffect ==
    \A s \in CallExprs :
        (s.kind = "call unvisited" /\ \E i \in DOMAIN stack : stack[i].loc = s.loc)
        \/ CallEffects(s.loc) = 1

\* The calls and method calls the scanner is inside of, whose call site
\* scan_expr_call or scan_expr_call_method will push.
OpenCalls ==
    {i \in DOMAIN stack :
        \/ stack[i].kind = "call" /\ stack[i].role \in CallFuncs
        \/ stack[i].kind = "method"}

\* C27: the effect of a call or method call is appended to effects before
\* the effects of its arguments and its receiver: whenever an effect found
\* in an operand of a call is appended, the Call effect of that call is in
\* effects already, so that a Call effect precedes every effect found in its
\* arguments.
C27_OwnEffectBeforeOperands ==
    [][Len(data'.effects) = Len(data.effects) + 1 =>
            \A i \in OpenCalls :
                stack[i].loc # last(data'.effects).loc
                    => CallEffects(stack[i].loc) = 1]_allVars

\* -------------------------------------------------------- skip accounting

\* Crates whose one file holds items of every kind at the top level, in impl
\* blocks and in foreign modules, and functions with macros in their bodies.
MaxSkipNodes == 4

NextSkips ==
    \/ ScanCrate(LibCrate, MaxSkipNodes)
    \/ TryScanFile("none", 1)
    \/ ScanFileReturn
    \/ ScanCrateReturn
    \/ \E kind \in {"Use", "Macro", "Const"}, lines \in SpanLines :
            scan_item_leaf(kind, lines)
    \/ scan_impl(FALSE, FALSE, FALSE, 1)
    \/ \E kind \in {"Macro", "Verbatim", "Const"}, lines \in SpanLines :
            scan_impl_item(kind, lines)
    \/ scan_impl_return
    \/ scan_foreign_mod(FALSE, 1)
    \/ \E kind \in {"Fn", "Macro", "Static"}, lines \in SpanLines :
            scan_foreign_item(kind, lines)
    \/ scan_foreign_mod_return
    \/ scan_fn_decl(FALSE, "f", FALSE, "Other", 1)
    \/ scan_fn_return
    \/ \E lines \in SpanLines : scan_macro(lines)

SpecSkips == ScanInit /\ [][NextSkips]_allVars

\* The steps that meet a macro: as an item, as an item of an impl block or
\* of a foreign module, as a statement or as an expression.
MacroOps ==
    {"scan_item Macro", "scan_impl_item Macro", "scan_foreign_item Macro",
     "scan_macro"}

\* The steps that meet an item of a kind the scanner has no handler for: a
\* const at the top level or in a function body, a const of an impl block,
\* a static of a foreign module.
OtherItemOps ==
    {"scan_item Const", "scan_impl_item Const", "scan_foreign_item Static"}

\* The step adds one span to the tracker and nothing to the other two
\* trackers of skipped items, and no effect.
CountsOnlyIn(tracker) ==
    /\ data'.effects = data.effects
    /\ scope_effect_blocks' = scope_effect_blocks
    /\ \A t \in {"skipped_macros", "skipped_other", "skipped_conditional_code"} :
            data'[t].instances = data[t].instances + (IF t = tracker THEN 1 ELSE 0)

\* C28: every item the scanner has no handler for adds to a skip counter
\* and gives no effect: a macro, as an item, an impl item, a foreign item, a
\* statement or an expression, adds one span to skipped_macros, and an item
\* of any other kind but module, use, impl, trait, function and foreign
\* module adds one span to skipped_other.
C28_SkipAccounting ==
    [][/\ event'.op \in MacroOps => CountsOnlyIn("skipped_macros")
       /\ event'.op \in OtherItemOps => CountsOnlyIn("skipped_other")]_allVars

\* The steps in which push_callsite or scan_unsafe_block runs.
NeedsFn == {"scan_expr_call", "scan_expr_call_method", "scan_unsafe_block"}

\* C29: whenever push_callsite or scan_unsafe_block runs scope_fns is not
\* empty, so that neither the expectation "not inside a function!" nor the
\* unwrap of the last function declaration fails: wherever scan_expr can be
\* called the top of scope_fns is the innermost function declaration around
\* the expression; and the caller of every Call effect is the name of the
\* innermost function declaration around its call site, also after a
\* function item nested in the body was scanned and popped.
C29_CallerIsInnermostFn ==
    /\ [][event'.op \in NeedsFn => scope_fns # << >>]_allVars
    /\ [](AtExpr =>
            /\ scope_fns # << >>
            /\ last(scope_fns).fn_name = Innermost({"fn"}).name
            /\ last(scope_fns).src_loc = Innermost({"fn"}).loc)
    /\ [](\A i \in DOMAIN data.effects :
            data.effects[i].kind = "Call" =>
                /\ CallSitesAt(data.effects[i].loc) # {}
                /\ \A s \in CallSitesAt(data.effects[i].loc) :
                        data.effects[i].caller = s.fn)

\* A call in the body of f was recorded with the caller f after the function
\* g, nested in the body of f before the call, was scanned and popped.
C29_Witness ==
    /\ event.op = "scan_expr_call"
    /\ Len(stack) = 2
    /\ last(stack).kind = "fn" /\ last(stack).name = "f"
    /\ scope_fns # << >> /\ last(scope_fns).fn_name = "f"
    /\ "g" \in DOMAIN data.fn_locs
    /\ data.fn_locs["g"] > last(stack).loc
    /\ \E i \in DOMAIN data.effects :
            /\ data.effects[i].kind = "Call"
            /\ data.effects[i].caller = "f"
            /\ data.effects[i].loc > data.fn_locs["g"]

\* The edges of the call graph from a node of the path u to a node of the
\* path v, at a source location.
EdgesAt(d, u, v, loc) ==
    {i \in DOMAIN d.call_graph.edges :
        /\ d.call_graph.nodes[d.call_graph.edges[i].from] = u
        /\ d.call_graph.nodes[d.call_graph.edges[i].to] = v
        /\ d.call_graph.edges[i].loc = loc}

\* C30: a call site in the function u whose callee resolves to v adds
\* exactly one edge from u to v if v is a key of node_idxs when the call is
\* visited, u being one always, and a call of u itself adds a self-edge; it
\* adds no edge otherwise; the Call effect is recorded in both cases; and no
\* other step adds an edge, so that an edge left out because v is declared
\* later is never added afterwards.
C30_OpportunisticEdges ==
    /\ [][event'.op = "scan_expr_call" =>
            LET u == last(scope_fns).fn_name
                v == last(stack).name
                loc == last(stack).loc
            IN  /\ u \in DOMAIN data.node_idxs
                /\ Len(data'.effects) = Len(data.effects) + 1
                /\ last(data'.effects).kind = "Call"
                /\ last(data'.effects).caller = u
                /\ last(data'.effects).callee = v
                /\ last(data'.effects).loc = loc
                /\ Len(data'.call_graph.edges) =
                        Len(data.call_graph.edges)
                            + (IF v \in DOMAIN data.node_idxs THEN 1 ELSE 0)
                /\ Cardinality(EdgesAt(data', u, v, loc)) =
                        (IF v \in DOMAIN data.node_idxs THEN 1 ELSE 0)]_allVars
    /\ [][event'.op # "scan_expr_call" =>
            data'.call_graph.edges = data.call_graph.edges]_allVars
    /\ [][SubSeq(data'.call_graph.edges, 1, Len(data.call_graph.edges))
            = data.call_graph.edges]_allVars

\* The function f called g, which is declared after f, and itself: the graph
\* holds the self-edge of f and, g being declared by now, still no edge from
\* f to g, and effects holds both calls.
C30_Witness ==
    /\ DOMAIN data.node_idxs = {"f", "g"}
    /\ data.fn_locs["f"] < data.fn_locs["g"]
    /\ \E i, j \in DOMAIN data.effects :
            /\ data.effects[i].kind = "Call" /\ data.effects[j].kind = "Call"
            /\ data.effects[i].caller = "f" /\ data.effects[i].callee = "g"
            /\ data.effects[i].loc < data.fn_locs["g"]
            /\ data.effects[j].caller = "f" /\ data.effects[j].callee = "f"
            /\ EdgesAt(data, "f", "g", data.effects[i].loc) = {}
            /\ Cardinality(EdgesAt(data, "f", "f", data.effects[j].loc)) = 1
    /\ Len(data.call_graph.edges) = 1

====
